---- MODULE Spec2Model ----
(***************************************************************************)
(* A model of pishow's media catalog (MediaDict), per-device playback      *)
(* queue (DeviceQueue) and DeviceQueueManager.                             *)
(*                                                                         *)
(* The media root holds two folders, the root "" and "trip"; a directory   *)
(* entry is a path 1..4, a physical file is an inode number.               *)
(***************************************************************************)
EXTENDS Integers, Sequences, FiniteSets, TLC

\* ------------------------------------------------------------- bounds
\* Filesystem mutations (create, delete, rename, link, rmdir) per run.
MaxFsOps == 3
\* Manager requests (getNext, settings changes, rescans, restarts) per run.
MaxOps == 3
\* Filesystem mutations per run while devices are being served.
MaxChanges == 1
\* Files in the tree when a run with restarts begins.
MaxFiles == 3

\* ----------------------------------------------------------- universe
\* Directory entries: 1 = a.jpg, 2 = b.mp4, 3 = trip/c.jpg, 4 = "trip/d e.jpg".
Paths == 1..4
Devices == {"d1", "d2"}
\* An inode per initial entry and one per file created later.
Inodes == 1..(4 + MaxFsOps)
NoKey == 0
NoFile == 0

\* The collection a directory entry belongs to: its immediate parent folder.
CollectionId(p) == IF p <= 2 THEN "" ELSE "trip"
\* mimetypes.guess_type on the entry's name: only b.mp4 is video/*.
IsVideoName(p) == p = 2
\* urllib.parse.quote leaves a.jpg, b.mp4 and trip/c.jpg as they are and
\* turns "trip/d e.jpg" into "trip/d%20e.jpg"; the quoted form of path p is
\* written 10 + p, which is no directory entry.
Quote(p) == IF p = 4 THEN 10 + p ELSE p
\* hashlib.md5 of the canonical path, taken as injective on the paths.
Md5(p) == 100 + p
Keys == {Md5(p) : p \in Paths}

\* ------------------------------------------------------------ helpers
RECURSIVE IndexOf(_, _)
\* list.index on key fields: the first position of key k in items, 0 if none.
IndexOf(items, k) ==
    IF items = <<>> THEN 0
    ELSE IF items[Len(items)].key = k /\ IndexOf(SubSeq(items, 1, Len(items) - 1), k) = 0
         THEN Len(items)
         ELSE IndexOf(SubSeq(items, 1, Len(items) - 1), k)

Range(s) == {s[i] : i \in 1..Len(s)}
NoDup(s) == \A i, j \in 1..Len(s) : i # j => s[i] # s[j]
Reverse(s) == [i \in 1..Len(s) |-> s[Len(s) + 1 - i]]

RECURSIVE SelectKeys(_, _)
\* [k for k in s if k in allowed]
SelectKeys(s, allowed) ==
    IF s = <<>> THEN <<>>
    ELSE IF Head(s) \in allowed
         THEN <<Head(s)>> \o SelectKeys(Tail(s), allowed)
         ELSE SelectKeys(Tail(s), allowed)

RECURSIVE Dedup(_)
\* list(dict.fromkeys(s)): first occurrences, in order.
Dedup(s) ==
    IF s = <<>> THEN <<>>
    ELSE LET front == Dedup(SubSeq(s, 1, Len(s) - 1))
             last == s[Len(s)]
         IN IF last \in Range(front) THEN front ELSE Append(front, last)

\* ------------------------------------------------------- the catalog
VARIABLES
    fs,             \* directory entry -> inode (NoFile: no such entry)
    dirs,           \* the folders under the media root that exist
    nextIno,        \* the inode the next created file gets
    fsOps,          \* filesystem mutations so far
    media_dict,     \* MediaDict: items, collection_keys, collections,
                    \* file_id_to_key, key_to_file_id, photo_keys
    devices_info,   \* DeviceQueueManager.devices_info: device -> DeviceInfo
    default_collections, \* DeviceQueueManager.default_collections
    device_queues,  \* DeviceQueueManager.device_queues: device -> DeviceQueue
    prefetch,       \* each DeviceQueue's _prefetch_thread
    queue_file,     \* storage: queue_<device>.pkl
    devices_file,   \* storage: devices.pkl
    default_file,   \* storage: default_collections.pkl
    call,           \* the get_next call in progress, if any
    ret,            \* what the last completed get_next returned, and to whom
    ops,            \* manager requests so far
    orphans,        \* per device, the prefetch worker of a DeviceQueue object
                    \* that delete_queue dropped from device_queues
    scan,           \* the watcher thread's sync_files call in progress, if any
    writable,       \* whether storage_dir accepts writes
    hist            \* per device, observation only: the keys the last refill
                    \* installed, the keys returned since and whether one was
                    \* returned twice; whether new keys were merged in since;
                    \* at the last allow-list change the old allow-list's
                    \* size, the list's length and the keys old and new
                    \* share; the list a restart found persisted and the keys
                    \* returned after it, and whether the file was
                    \* damaged; whether delete_device was the last
                    \* request about the device

EmptyMediaDict ==
    [items |-> <<>>,
     collections |-> {},
     collection_keys |-> [c \in {"", "trip"} |-> <<>>],
     file_id_to_key |-> [i \in Inodes |-> NoKey],
     key_to_file_id |-> [k \in Keys |-> NoFile],
     photo_keys |-> <<>>]

\* dict.keys(): the catalog's keys in insertion order.
DictKeys(md) == [i \in 1..Len(md.items) |-> md.items[i].key]
HasKey(md, k) == IndexOf(md.items, k) # 0
Item(md, k) == md.items[IndexOf(md.items, k)]

\* One iteration of sync_files' scan loop, for directory entry p of inode id.
SyncFile(s, p, id) ==
    LET known == s.file_id_to_key[id] # NoKey
        key == IF known THEN s.file_id_to_key[id] ELSE Md5(p)
        idx == IndexOf(s.items, key)
        rec == [key |-> key, file |-> p, is_video |-> IsVideoName(p)]
        cid == CollectionId(p)
    IN [items |-> IF idx # 0 THEN [s.items EXCEPT ![idx] = rec]
                  ELSE IF known THEN s.items ELSE Append(s.items, rec),
        file_id_to_key |-> IF known THEN s.file_id_to_key
                           ELSE [s.file_id_to_key EXCEPT ![id] = key],
        key_to_file_id |-> IF known THEN s.key_to_file_id
                           ELSE [s.key_to_file_id EXCEPT ![key] = id],
        collection_keys |-> [s.collection_keys EXCEPT ![cid] =
                                IF key \in Range(@) THEN @ ELSE Append(@, key)],
        new_keys |-> IF known THEN s.new_keys ELSE Append(s.new_keys, key),
        found_keys |-> s.found_keys \cup {key}]

RECURSIVE ScanFrom(_, _, _)
\* for file in sorted(media_dir.rglob("*")): entries in path order.
ScanFrom(s, p, files) ==
    IF p > 4 THEN s
    ELSE ScanFrom(IF files[p] # NoFile THEN SyncFile(s, p, files[p]) ELSE s, p + 1, files)

RECURSIVE PruneItems(_, _)
PruneItems(items, found) ==
    IF items = <<>> THEN <<>>
    ELSE IF Head(items).key \in found
         THEN <<Head(items)>> \o PruneItems(Tail(items), found)
         ELSE PruneItems(Tail(items), found)

RECURSIVE PhotoKeys(_)
PhotoKeys(items) ==
    IF items = <<>> THEN <<>>
    ELSE IF Head(items).is_video THEN PhotoKeys(Tail(items))
         ELSE <<Head(items).key>> \o PhotoKeys(Tail(items))

\* The scan's start: the records and identity maps as they are, the
\* collection lists cleared.
ScanStart(md) ==
    [items |-> md.items,
     file_id_to_key |-> md.file_id_to_key,
     key_to_file_id |-> md.key_to_file_id,
     collection_keys |-> [c \in {"", "trip"} |-> <<>>],
     new_keys |-> <<>>,
     found_keys |-> {}]

\* The end of sync_files after scan s: the keys not found are pruned with
\* their identity mapping and photo_keys is rebuilt.
SyncEnd(s, folders) ==
    LET gone == {k \in Range(DictKeys(s)) : k \notin s.found_keys}
        goneIds == {s.key_to_file_id[k] : k \in gone} \ {NoFile}
    IN [md |-> [items |-> PruneItems(s.items, s.found_keys),
                collections |-> {""} \cup folders,
                collection_keys |-> s.collection_keys,
                file_id_to_key |-> [i \in Inodes |->
                    IF i \in goneIds THEN NoKey ELSE s.file_id_to_key[i]],
                key_to_file_id |-> [k \in Keys |->
                    IF k \in gone THEN NoFile ELSE s.key_to_file_id[k]],
                photo_keys |-> PhotoKeys(PruneItems(s.items, s.found_keys))],
        new_keys |-> s.new_keys]

\* MediaDict.sync_files: the catalog after a full rescan of the tree
\* (files, folders), and the keys minted by it.
SyncFiles(md, files, folders) == SyncEnd(ScanFrom(ScanStart(md), 1, files), folders)

\* No sync_files call in progress on the watcher thread.  Of a call in
\* progress: the entry the scan loop is at, its locals, the catalog it found,
\* the key list its prune loop iterates over; raised tells that the last call
\* ended in an exception.
NoScan == [active |-> FALSE, p |-> 1, new_keys |-> <<>>, found_keys |-> {},
           before |-> EmptyMediaDict, keys |-> <<>>, raised |-> FALSE]

NoItem == [key |-> NoKey, file |-> NoFile, is_video |-> FALSE]

\* Path.exists() of media_dir / relative_path.
Exists(files, q) == q \in Paths /\ files[q] # NoFile

\* MediaDict.__getitem__: the record of key k, or None when the file named
\* by its relative_path is gone, which also triggers a rescan.  The caller
\* checks k is a catalog key.
GetItem(md, files, folders, k) ==
    LET item == Item(md, k)
    IN IF ~Exists(files, Quote(item.file))
       THEN [md |-> SyncFiles(md, files, folders).md, found |-> FALSE, item |-> NoItem]
       ELSE [md |-> md, found |-> TRUE, item |-> item]

\* The key lists of the given collection ids in the catalog's own order of
\* collections, whatever the order of the ids.
CollectKeys_RootFirst(md, ids) ==
    (IF "" \in Range(ids) THEN md.collection_keys[""] ELSE <<>>)
        \o (IF "trip" \in Range(ids) THEN md.collection_keys["trip"] ELSE <<>>)

RECURSIVE CollectKeys(_, _)
\* The key lists of the given collection ids, one after the other.
CollectKeys(md, ids) ==
    IF ids = <<>> THEN <<>>
    ELSE (IF Head(ids) \in DOMAIN md.collection_keys
          THEN md.collection_keys[Head(ids)] ELSE <<>>)
         \o CollectKeys(md, Tail(ids))

\* key_to_file_id.get(key, key)
FileIdOf(md, k) == IF md.key_to_file_id[k] # NoFile THEN md.key_to_file_id[k] ELSE k

\* get_keys_for_collections without its seen set.
UniqueByFileId_NoSeen(md, ks, seen) == ks

RECURSIVE UniqueByFileId(_, _, _)
UniqueByFileId(md, ks, seen) ==
    IF ks = <<>> THEN <<>>
    ELSE IF FileIdOf(md, Head(ks)) \in seen
         THEN UniqueByFileId(md, Tail(ks), seen)
         ELSE <<Head(ks)>> \o UniqueByFileId(md, Tail(ks), seen \cup {FileIdOf(md, Head(ks))})

\* MediaDict.get_keys_for_collections
GetKeysForCollections(md, ids) == UniqueByFileId(md, CollectKeys(md, ids), {})

vars == <<fs, dirs, nextIno, fsOps, media_dict, devices_info, default_collections,
          device_queues, prefetch, queue_file, devices_file, default_file,
          call, ret, ops, orphans, scan, writable, hist>>

\* ----------------------------------------------------- DeviceQueue
\* A DeviceQueue and what it reads and writes, for one device:
\*   md   the shared catalog          dq   the queue object's fields
\*   file its queue_<id>.pkl          pf   its prefetch thread
\*   h    the observation record of the device
\* The allow-list the object holds is dq.allowed (isSet FALSE: none installed,
\* the whole catalog is the candidate set).

NoAllowed == [isSet |-> FALSE, keys |-> <<>>]
\* No prefetch thread; running counts the worker threads of the queue object
\* that were started and have not ended, dumped is the list the worker's
\* save_queue has pickled and not yet flushed to the file.
NoThread == [alive |-> FALSE, pc |-> "done", todo |-> <<>>, modified |-> FALSE,
             running |-> 0, dumped |-> <<>>]
NoQueue == [live |-> FALSE, queue |-> <<>>, shuffle |-> TRUE, allowed |-> NoAllowed,
            prefetch_only_photo |-> FALSE]
AbsentFile == [exists |-> FALSE, corrupt |-> FALSE, data |-> <<>>]
NoHist == [installed |-> {}, served |-> {}, repeat |-> FALSE, merged |-> FALSE,
           from |-> 0, left |-> 0, common |-> 0,
           resumed |-> FALSE, persisted |-> <<>>, since |-> <<>>,
           deleted |-> FALSE, damaged |-> FALSE]

\* The orders random.shuffle can produce, as rankings of all keys.
Orders == {o \in [1..4 -> Keys] : \A i, j \in 1..4 : i # j => o[i] # o[j]}

RECURSIVE Count(_, _)
Count(s, k) == IF s = <<>> THEN 0
               ELSE (IF Head(s) = k THEN 1 ELSE 0) + Count(Tail(s), k)

RECURSIVE Shuffle(_, _)
\* random.shuffle(list) when the draw is the ranking o: the list's elements
\* (each as often as it occurs) in the order of o.
Shuffle(list, o) ==
    IF o = <<>> THEN <<>>
    ELSE [i \in 1..Count(list, Head(o)) |-> Head(o)] \o Shuffle(list, Tail(o))

RECURSIVE RemoveFirst(_, _)
\* list.remove(k)
RemoveFirst(s, k) ==
    IF s = <<>> THEN <<>>
    ELSE IF Head(s) = k THEN Tail(s) ELSE <<Head(s)>> \o RemoveFirst(Tail(s), k)

\* with file.open("wb") as f: pickle.dump(data, f), inside try/except: the
\* file holds data afterwards, or is as it was when the open fails.
WriteFile(file, data) ==
    IF writable THEN [exists |-> TRUE, corrupt |-> FALSE, data |-> data] ELSE file

\* file.exists() and pickle.load(f) returns: the file is there and its bytes
\* are a pickle.
Readable(file) == file.exists /\ ~file.corrupt

\* save_queue that puts the list back to what the file holds when the write
\* fails.
SaveQueue_RollsBack(w) ==
    IF writable THEN [w EXCEPT !.file = WriteFile(w.file, w.dq.queue)]
    ELSE [w EXCEPT !.dq.queue = IF Readable(w.file) THEN w.file.data ELSE <<>>]

\* DeviceQueue.save_queue
SaveQueue(w) == [w EXCEPT !.file = WriteFile(w.file, w.dq.queue)]

\* _prefetch_next without its test for a worker that is alive.
PrefetchNext_NoGuard(w) ==
    IF w.dq.queue = <<>> THEN w
    ELSE [w EXCEPT !.pf = [alive |-> TRUE, pc |-> "start", todo |-> <<>>,
                           modified |-> FALSE, running |-> w.pf.running + 1,
                           dumped |-> <<>>]]

\* DeviceQueue._prefetch_next(): start the worker unless the list is empty or
\* a worker is alive.
PrefetchNext(w) ==
    IF w.dq.queue = <<>> \/ w.pf.alive THEN w
    ELSE [w EXCEPT !.pf = [alive |-> TRUE, pc |-> "start", todo |-> <<>>,
                           modified |-> FALSE, running |-> w.pf.running + 1,
                           dumped |-> <<>>]]

\* DeviceQueue._prefetch_next(only_photo)
PrefetchNextPhoto(w, only_photo) ==
    PrefetchNext([w EXCEPT !.dq.prefetch_only_photo = only_photo])

\* _get_keys that never asks for the allow-list.
GetKeys_WholeCatalog(w, given, keys) ==
    IF given THEN Dedup(keys) ELSE Dedup(DictKeys(w.md))

\* _get_keys that takes an empty allow-list for no allow-list.
GetKeys_FallbackWhenEmpty(w, given, keys) ==
    IF given THEN Dedup(keys)
    ELSE IF w.dq.allowed.isSet /\ w.dq.allowed.keys # <<>> THEN Dedup(w.dq.allowed.keys)
    ELSE Dedup(DictKeys(w.md))

\* DeviceQueue._get_keys(keys): given = FALSE stands for keys = None.
GetKeys(w, given, keys) ==
    IF given THEN Dedup(keys)
    ELSE IF w.dq.allowed.isSet THEN Dedup(w.dq.allowed.keys)
    ELSE Dedup(DictKeys(w.md))

\* random.shuffle when the queue shuffles.
ShuffleIf(shuffle, list, o) == IF shuffle THEN Shuffle(list, o) ELSE list

\* The merge that does not drop the incoming keys from the old list.
Combine_NoFilter(queue, ks, replace) ==
    IF replace THEN Dedup(ks) ELSE Reverse(ks) \o queue

\* The rebuild that puts the keys in front of the old list instead of
\* replacing it.
Combine_Appends(queue, ks, replace) ==
    IF replace THEN ks \o queue
    ELSE Reverse(ks) \o SelectKeys(queue, Range(queue) \ Range(ks))

\* update_queue's combined list: the keys alone on replace, else the keys
\* reversed, then the keys of the old list that are not incoming.
Combine(queue, ks, replace) ==
    IF replace THEN Dedup(ks)
    ELSE Reverse(ks) \o SelectKeys(queue, Range(queue) \ Range(ks))

\* The end of update_queue: the list is installed and saved, the worker
\* started.
InstallQueue(w, queue_data, replace) ==
    PrefetchNext(SaveQueue(
        [w EXCEPT !.dq.queue = queue_data,
                  !.h.installed = IF replace THEN Range(queue_data) ELSE @,
                  !.h.served = IF replace THEN {} ELSE @,
                  !.h.merged = ~replace]))

\* update_queue past _get_keys, ks the keys it returned.
UpdateQueueWith(w, ks, replace, o) ==
    IF ks = <<>>
    THEN SaveQueue([w EXCEPT !.dq.queue = <<>>,
                             !.h.installed = {}, !.h.served = {},
                             !.h.merged = FALSE])
    ELSE InstallQueue(w, ShuffleIf(w.dq.shuffle, Combine(w.dq.queue, ks, replace), o),
                      replace)

\* DeviceQueue.update_queue(keys, replace) with shuffle draw o.
UpdateQueue(w, given, keys, replace, o) ==
    UpdateQueueWith(w, GetKeys(w, given, keys), replace, o)

\* DeviceQueue.load_queue
LoadQueue(w) ==
    SaveQueue([w EXCEPT !.dq.queue = IF Readable(w.file) THEN w.file.data ELSE <<>>])

\* DeviceQueue.__init__(device_id, media_dict, storage_dir, shuffle)
NewDeviceQueue(w, shuffle, o) ==
    LET w1 == LoadQueue([w EXCEPT !.dq = [NoQueue EXCEPT !.live = TRUE,
                                                         !.shuffle = shuffle]])
    IN IF w1.dq.queue = <<>> THEN UpdateQueue(w1, FALSE, <<>>, TRUE, o) ELSE w1

\* DeviceQueue.set_allowed_keys(keys): replace the allow-list, filter the list
\* to it, refill when the allow-list changed or the filtered list is empty.
SetAllowedKeys(w, keys, o) ==
    LET changed == ~w.dq.allowed.isSet \/ w.dq.allowed.keys # keys
        kept == SelectKeys(w.dq.queue, Range(keys))
        w1 == [w EXCEPT !.dq.allowed = [isSet |-> TRUE, keys |-> keys],
                        !.dq.queue = kept,
                        !.h.from = IF changed THEN Len(w.dq.allowed.keys) ELSE @,
                        !.h.left = IF changed THEN Len(w.dq.queue) ELSE @,
                        !.h.common = IF changed
                                     THEN Cardinality(Range(w.dq.allowed.keys) \cap Range(keys))
                                     ELSE @]
    IN IF changed \/ kept = <<>> THEN UpdateQueue(w1, FALSE, <<>>, TRUE, o)
       ELSE IF kept # w.dq.queue THEN SaveQueue(w1)
       ELSE w1

\* MediaDict.ensure_metadata(key): the record of key, found FALSE when the key
\* is no catalog key or its file is missing.
EnsureMetadata(md, files, folders, k) ==
    IF ~HasKey(md, k) THEN [md |-> md, found |-> FALSE, item |-> NoItem]
    ELSE GetItem(md, files, folders, k)

NoMedia == [kind |-> "none", key |-> NoKey, is_video |-> FALSE]

\* The pass of get_next's loop past the pop of key: the key is served.
GetNextServe(w, em, key, only_photo) ==
    [w |-> PrefetchNextPhoto(
               SaveQueue([w EXCEPT !.md = em.md,
                                   !.h.served = @ \cup {key},
                                   !.h.repeat = @ \/ key \in w.h.served,
                                   !.h.since = IF Len(@) < Len(w.h.persisted)
                                               THEN Append(@, key) ELSE @]),
               only_photo),
     done |-> TRUE,
     res |-> [kind |-> "media", key |-> key, is_video |-> em.item.is_video]]

\* get_next's handling of the popped key without the test for videos under
\* only_photo.
GetNextResolved_NoPhotoFilter(w, em, key, only_photo) ==
    IF ~em.found
    THEN [w |-> SaveQueue([w EXCEPT !.md = em.md]), done |-> FALSE, res |-> NoMedia]
    ELSE GetNextServe(w, em, key, only_photo)

\* get_next's handling of the popped key that ends the call with no media
\* when the key does not resolve.
GetNextResolved_GivesUp(w, em, key, only_photo) ==
    IF ~em.found
    THEN [w |-> SaveQueue([w EXCEPT !.md = em.md]), done |-> TRUE, res |-> NoMedia]
    ELSE IF only_photo /\ em.item.is_video
         THEN [w |-> PrefetchNext(SaveQueue([w EXCEPT !.md = em.md])),
               done |-> FALSE, res |-> NoMedia]
    ELSE GetNextServe(w, em, key, only_photo)

\* The pass of get_next's loop past the pop of key, em what
\* ensure_metadata(key) gave: a key that does not resolve, or a video under
\* only_photo, is dropped and the loop goes on.
GetNextResolved(w, em, key, only_photo) ==
    IF ~em.found
    THEN [w |-> SaveQueue([w EXCEPT !.md = em.md]), done |-> FALSE, res |-> NoMedia]
    ELSE IF only_photo /\ em.item.is_video
         THEN [w |-> PrefetchNext(SaveQueue([w EXCEPT !.md = em.md])),
               done |-> FALSE, res |-> NoMedia]
    ELSE GetNextServe(w, em, key, only_photo)

\* get_next that reads the last key of the list and leaves it there.
GetNextPop_Peek(w, files, folders, only_photo) ==
    IF w.dq.queue = <<>> THEN [w |-> w, done |-> TRUE, res |-> NoMedia]
    ELSE IF only_photo /\ Len(w.md.photo_keys) = 0
         THEN [w |-> w, done |-> TRUE, res |-> NoMedia]
    ELSE GetNextResolved(w,
                         EnsureMetadata(w.md, files, folders, w.dq.queue[Len(w.dq.queue)]),
                         w.dq.queue[Len(w.dq.queue)], only_photo)

\* The pass of get_next's loop past the refill: no media when the list is
\* still empty or only_photo meets a catalog without photos, else the pop.
GetNextPop(w, files, folders, only_photo) ==
    IF w.dq.queue = <<>> THEN [w |-> w, done |-> TRUE, res |-> NoMedia]
    ELSE IF only_photo /\ Len(w.md.photo_keys) = 0
         THEN [w |-> w, done |-> TRUE, res |-> NoMedia]
    ELSE GetNextResolved([w EXCEPT !.dq.queue = SubSeq(@, 1, Len(@) - 1)],
                         EnsureMetadata(w.md, files, folders, w.dq.queue[Len(w.dq.queue)]),
                         w.dq.queue[Len(w.dq.queue)], only_photo)

\* One pass of the while-loop of DeviceQueue.get_next(only_photo) with
\* shuffle draw o: done tells whether the call returned, res what.
GetNextPass(w, files, folders, only_photo, o) ==
    GetNextPop(IF w.dq.queue = <<>> THEN UpdateQueue(w, FALSE, <<>>, TRUE, o) ELSE w,
               files, folders, only_photo)

\* The worker's handling of key, em what ensure_metadata(key) gave.
WorkerResolved(w, em, key) ==
    LET drop == ~em.found \/ (w.dq.prefetch_only_photo /\ em.item.is_video)
    IN IF drop /\ key \in Range(w.dq.queue)
       THEN [w EXCEPT !.md = em.md, !.pf.todo = Tail(@),
                      !.dq.queue = RemoveFirst(@, key), !.pf.modified = TRUE]
       ELSE [w EXCEPT !.md = em.md, !.pf.todo = Tail(@)]

\* One key of the prefetch worker's loop.
WorkerPass(w, files, folders) ==
    WorkerResolved(w, EnsureMetadata(w.md, files, folders, Head(w.pf.todo)),
                   Head(w.pf.todo))

\* The worker's end: save when it removed something, then clear the thread.
WorkerEnd(w) ==
    [(IF w.pf.modified THEN SaveQueue(w) ELSE w) EXCEPT !.pf = NoThread]

\* ---------------------------------------------- DeviceQueueManager
\* DeviceInfo(): the defaults of the dataclass; collections None is isNone.
NoCollections == [isNone |-> TRUE, ids |-> <<>>]
DeviceInfo == [known |-> TRUE, only_photo |-> FALSE, sequential_mode |-> FALSE,
               show_counters |-> FALSE, collections |-> NoCollections]
\* No entry for the device id in devices_info.
NoDeviceInfo == [DeviceInfo EXCEPT !.known = FALSE]
\* fallback_collections or [""]
FallbackCollections == <<"">>

\* _sanitize_collections that keeps the repeats of an id.
SanitizeCollections_KeepsRepeats(collections) == collections

\* DeviceQueueManager._sanitize_collections
SanitizeCollections(collections) == Dedup(collections)

\* DeviceQueueManager.get_active_collections
GetActiveCollections(info, defaults) ==
    IF info.collections.isNone
    THEN IF SanitizeCollections(defaults) = <<>>
         THEN SanitizeCollections(FallbackCollections)
         ELSE SanitizeCollections(defaults)
    ELSE SanitizeCollections(info.collections.ids)

\* get_device_info that registers a device id without saving the registry.
GetDeviceInfo_NoSave(m, d) ==
    IF m.info[d].known THEN m
    ELSE [info |-> [m.info EXCEPT ![d] = DeviceInfo], file |-> m.file]

\* DeviceQueueManager.get_device_info: m is [info, file], the registry and
\* devices.pkl; a device id seen for the first time is registered and saved.
GetDeviceInfo(m, d) ==
    IF m.info[d].known THEN m
    ELSE LET info == [m.info EXCEPT ![d] = DeviceInfo]
         IN [info |-> info, file |-> WriteFile(m.file, info)]

\* The DeviceQueue of device d with everything it touches.
WOf(d) == [md |-> media_dict, dq |-> device_queues[d], file |-> queue_file[d],
           pf |-> prefetch[d], h |-> hist[d]]

\* get_device_data that builds a new DeviceQueue on every call.
GetDeviceData_Recreates(w, info, defaults, o) ==
    LET allowed_keys == GetKeysForCollections(w.md, GetActiveCollections(info, defaults))
        w1 == NewDeviceQueue(w, ~info.sequential_mode, o)
    IN SetAllowedKeys([w1 EXCEPT !.h.deleted = FALSE], allowed_keys, o)

\* DeviceQueueManager.get_device_data, the queue's part: w is the device's
\* DeviceQueue (created when not live), info its settings.
GetDeviceData(w, info, defaults, o) ==
    LET allowed_keys == GetKeysForCollections(w.md, GetActiveCollections(info, defaults))
        w1 == IF ~w.dq.live THEN NewDeviceQueue(w, ~info.sequential_mode, o)
              ELSE [w EXCEPT !.dq.shuffle = ~info.sequential_mode]
    IN SetAllowedKeys([w1 EXCEPT !.h.deleted = FALSE], allowed_keys, o)

\* refresh_device_queue's own set_allowed_keys, on the queue that
\* get_device_data returned.
RefreshAllowedKeys(w, info, defaults, o) ==
    SetAllowedKeys(w, GetKeysForCollections(w.md, GetActiveCollections(info, defaults)), o)

\* refresh_device_queue that leaves the queue to the device's next request.
RefreshDeviceQueue_Lazy(w, info, defaults, o) == w

\* DeviceQueueManager.refresh_device_queue
RefreshDeviceQueue(w, info, defaults, o) ==
    RefreshAllowedKeys(GetDeviceData(w, info, defaults, o), info, defaults, o)

\* update_query's update_queue(new_allowed) for one queue.
UpdateQueryNew(w, keys, new_allowed, o) ==
    IF keys = <<>> \/ new_allowed = <<>> THEN w
    ELSE UpdateQueue(w, TRUE, new_allowed, FALSE, o)

\* update_query for one queue, allowed_keys the allow-list resolved for it.
UpdateQueryWith(w, allowed_keys, keys, o) ==
    UpdateQueryNew(SetAllowedKeys(w, allowed_keys, o), keys,
                   SelectKeys(keys, Range(allowed_keys)), o)

\* DeviceQueueManager.update_query(keys), for one live queue.
UpdateQuery(w, info, defaults, keys, o) ==
    UpdateQueryWith(w, GetKeysForCollections(w.md, GetActiveCollections(info, defaults)),
                    keys, o)

\* get_next_counters that counts the whole catalog.
Counters_WholeCatalog(w) ==
    [total |-> Len(w.md.items), position |-> Len(w.md.items) - Len(w.dq.queue)]

\* DeviceQueue.get_next_counters: the triple's position and total.
Counters(w) ==
    LET total == Len(GetKeys(w, FALSE, <<>>))
    IN [total |-> total, position |-> total - Len(w.dq.queue)]

\* No refill by the loop of the call in progress so far.
NoMark == [set |-> FALSE, at |-> <<>>]
\* mark: what the queue, its file, its worker and the catalog were after the
\* last pass of the call's loop that refilled the list; back: the loop has
\* been there twice.
Idle == [active |-> FALSE, dev |-> "d1", only_photo |-> FALSE, counters |-> FALSE,
         no_allowed |-> FALSE, mark |-> NoMark, back |-> FALSE]
NoRet == [dev |-> "d1", kind |-> "start", key |-> NoKey, is_video |-> FALSE,
          only_photo |-> FALSE, no_allowed |-> FALSE,
          counters |-> FALSE, position |-> 0, total |-> 0]

\* The draws that shuffle the keys of list a differently: one when the queue
\* does not shuffle or the request installs no list.
Draws(shuffle, a, installs) ==
    IF shuffle /\ installs
    THEN {o \in Orders : \A i \in 1..3 :
             o[i] \notin Range(a) => (o[i + 1] \notin Range(a) /\ o[i] < o[i + 1])}
    ELSE {[i \in 1..4 |-> Md5(i)]}

\* Whether set_allowed_keys(a) on queue w (created when not live) installs a
\* new list.
Installs(w, a) ==
    \/ ~w.dq.live \/ ~w.dq.allowed.isSet \/ w.dq.allowed.keys # a
    \/ SelectKeys(w.dq.queue, Range(a)) = <<>>

\* The allow-list the manager resolves for settings info.
AllowedKeys(md, info, defaults) ==
    GetKeysForCollections(md, GetActiveCollections(info, defaults))

Commit(d, w) ==
    /\ media_dict' = w.md
    /\ device_queues' = [device_queues EXCEPT ![d] = w.dq]
    /\ prefetch' = [prefetch EXCEPT ![d] = w.pf]
    /\ queue_file' = [queue_file EXCEPT ![d] = w.file]
    /\ hist' = [hist EXCEPT ![d] = w.h]

\* The same for every device, new the queues with what they touch.
CommitAll(new) ==
    /\ device_queues' = [d \in Devices |-> new[d].dq]
    /\ prefetch' = [d \in Devices |-> new[d].pf]
    /\ queue_file' = [d \in Devices |-> new[d].file]
    /\ hist' = [d \in Devices |-> new[d].h]

unchangedFs == UNCHANGED <<fs, dirs, nextIno, fsOps>>
unchangedRest == UNCHANGED <<orphans, scan, writable>>
unchangedSettings == UNCHANGED <<devices_info, devices_file, default_collections, default_file>>


\* get_next(d) past get_device_data, which returned queue w and settings
\* info: the call enters DeviceQueue.get_next(only_photo).
StartCall(d, info, w) ==
    /\ Commit(d, [w EXCEPT !.dq.prefetch_only_photo = info.only_photo])
    /\ call' = [active |-> TRUE, dev |-> d,
                only_photo |-> info.only_photo,
                counters |-> info.show_counters,
                no_allowed |-> w.dq.allowed.keys = <<>>,
                mark |-> NoMark, back |-> FALSE]

\* DeviceQueueManager.get_next(d), up to the first pass of get_next's loop.
GetNext(d) ==
    /\ ~call.active
    /\ LET m == GetDeviceInfo([info |-> devices_info, file |-> devices_file], d)
           info == m.info[d]
       IN /\ devices_info' = m.info
          /\ devices_file' = m.file
          /\ \E o \in Draws(~info.sequential_mode,
                             AllowedKeys(media_dict, info, default_collections),
                             Installs(WOf(d), AllowedKeys(media_dict, info, default_collections))) :
                StartCall(d, info, GetDeviceData(WOf(d), info, default_collections, o))
    /\ UNCHANGED <<default_collections, default_file, ret>>
    /\ unchangedFs
    /\ unchangedRest

\* What the call in progress returns when its loop ended with result res and
\* get_next_counters counted c.
Returned(res, c) ==
    LET none == res.kind = "none" \/ (call.counters /\ c.total = 0)
    IN [dev |-> call.dev,
        kind |-> IF none THEN "none" ELSE "media",
        key |-> IF none THEN NoKey ELSE res.key,
        is_video |-> IF none THEN FALSE ELSE res.is_video,
        only_photo |-> call.only_photo,
        no_allowed |-> call.no_allowed,
        counters |-> call.counters,
        position |-> IF call.counters /\ ~none THEN c.position ELSE 0,
        total |-> IF call.counters /\ ~none THEN c.total ELSE 0]

\* Where a pass that refilled left the queue w of the call in progress.
MarkOf(w) == [md |-> w.md, dq |-> w.dq, pf |-> w.pf, file |-> w.file]

\* The end of a pass r of the loop, refilled telling whether it found the
\* list empty: the call returns or goes on.
PassEnd(r, refilled) ==
    /\ Commit(call.dev, r.w)
    /\ call' = IF r.done THEN Idle
               ELSE IF ~refilled THEN call
               ELSE [call EXCEPT
                        !.mark = [set |-> TRUE, at |-> MarkOf(r.w)],
                        !.back = @ \/ (call.mark.set /\ call.mark.at = MarkOf(r.w))]
    /\ ret' = IF r.done THEN Returned(r.res, Counters(r.w)) ELSE ret

\* One pass of the loop of DeviceQueue.get_next for the call in progress.
GetNextLoop ==
    /\ call.active
    /\ \E o \in Draws(device_queues[call.dev].shuffle, GetKeys(WOf(call.dev), FALSE, <<>>),
                     device_queues[call.dev].queue = <<>>) :
          PassEnd(GetNextPass(WOf(call.dev), fs, dirs, call.only_photo, o),
                  device_queues[call.dev].queue = <<>>)
    /\ UNCHANGED ops
    /\ unchangedSettings
    /\ unchangedFs
    /\ unchangedRest

\* DeviceQueueManager.update_device_info(d, only_photo=, sequential_mode=,
\* show_counters=)
UpdateDeviceInfo(d, only_photo, sequential_mode, show_counters) ==
    /\ ~call.active
    /\ LET old == IF devices_info[d].known THEN devices_info[d] ELSE DeviceInfo
           info == [devices_info EXCEPT ![d] =
                       [old EXCEPT !.only_photo = only_photo,
                                   !.sequential_mode = sequential_mode,
                                   !.show_counters = show_counters]]
       IN /\ devices_info' = info
          /\ devices_file' = WriteFile(devices_file, info)
    /\ UNCHANGED <<media_dict, device_queues, prefetch, queue_file, hist,
                   default_collections, default_file, call, ret>>
    /\ unchangedFs
    /\ unchangedRest

\* set_device_collections that stores the cleaned collections whatever
\* keep_default_if_same says.
SetDeviceCollections_AlwaysOverride(d, isNone, collections, keep_default_if_same) ==
    /\ ~call.active
    /\ LET m == GetDeviceInfo([info |-> devices_info, file |-> devices_file], d)
           new == [m.info[d] EXCEPT !.collections =
                      IF isNone THEN NoCollections
                      ELSE [isNone |-> FALSE, ids |-> SanitizeCollections(collections)]]
           info == [m.info EXCEPT ![d] = new]
       IN /\ devices_info' = info
          /\ devices_file' = WriteFile(devices_file, info)
          /\ \E o \in Draws(~new.sequential_mode,
                             AllowedKeys(media_dict, new, default_collections),
                             Installs(WOf(d), AllowedKeys(media_dict, new, default_collections))) :
                Commit(d, RefreshDeviceQueue(WOf(d), new, default_collections, o))
    /\ UNCHANGED <<default_collections, default_file, call, ret>>
    /\ unchangedFs
    /\ unchangedRest

\* DeviceQueueManager.set_device_collections(d, collections,
\* keep_default_if_same); isNone stands for collections = None.
SetDeviceCollections(d, isNone, collections, keep_default_if_same) ==
    /\ ~call.active
    /\ LET m == GetDeviceInfo([info |-> devices_info, file |-> devices_file], d)
           old == m.info[d]
           cleaned == SanitizeCollections(collections)
           same == /\ keep_default_if_same
                   /\ old.collections.isNone
                   /\ cleaned = GetActiveCollections(old, default_collections)
           new == [old EXCEPT !.collections =
                      IF isNone \/ same THEN NoCollections
                      ELSE [isNone |-> FALSE, ids |-> cleaned]]
           info == [m.info EXCEPT ![d] = new]
       IN /\ devices_info' = info
          /\ devices_file' = WriteFile(devices_file, info)
          /\ \E o \in Draws(~new.sequential_mode,
                             AllowedKeys(media_dict, new, default_collections),
                             Installs(WOf(d), AllowedKeys(media_dict, new, default_collections))) :
                Commit(d, RefreshDeviceQueue(WOf(d), new, default_collections, o))
    /\ UNCHANGED <<default_collections, default_file, call, ret>>
    /\ unchangedFs
    /\ unchangedRest

\* The draws for device d when the defaults become cleaned.
DrawsDefault(d, cleaned) ==
    Draws(devices_info[d].known /\ devices_info[d].collections.isNone
             /\ ~devices_info[d].sequential_mode,
          AllowedKeys(media_dict, devices_info[d], cleaned),
          Installs(WOf(d), AllowedKeys(media_dict, devices_info[d], cleaned)))

\* set_default_collections that gives the new defaults to the queue of every
\* registered device, whatever collections the device has of its own.
RefreshDefaults_EveryDevice(cleaned, o1, o2) ==
    CommitAll([d \in Devices |->
                 IF devices_info[d].known
                 THEN RefreshDeviceQueue(WOf(d),
                                         [devices_info[d] EXCEPT !.collections = NoCollections],
                                         cleaned, IF d = "d1" THEN o1 ELSE o2)
                 ELSE WOf(d)])

\* set_default_collections past the save of the new defaults cleaned: the
\* queues of the devices on defaults are refreshed, with draws o1 and o2.
RefreshDefaults(cleaned, o1, o2) ==
    CommitAll([d \in Devices |->
                 IF devices_info[d].known /\ devices_info[d].collections.isNone
                 THEN RefreshDeviceQueue(WOf(d), devices_info[d], cleaned,
                                         IF d = "d1" THEN o1 ELSE o2)
                 ELSE WOf(d)])

\* DeviceQueueManager.set_default_collections(collections)
SetDefaultCollections(collections) ==
    /\ ~call.active
    /\ LET cleaned == IF SanitizeCollections(collections) = <<>>
                      THEN SanitizeCollections(FallbackCollections)
                      ELSE SanitizeCollections(collections)
       IN /\ default_collections' = cleaned
          /\ default_file' = WriteFile(default_file, cleaned)
          /\ \E o1 \in DrawsDefault("d1", cleaned), o2 \in DrawsDefault("d2", cleaned) :
                RefreshDefaults(cleaned, o1, o2)
    /\ UNCHANGED <<media_dict, devices_info, devices_file, call, ret>>
    /\ unchangedFs
    /\ unchangedRest

\* The draws for device d when a rescan s minted keys.
DrawsUpdate(d, s) ==
    Draws(device_queues[d].live /\ s.new_keys # <<>> /\ device_queues[d].shuffle,
          AllowedKeys(s.md, IF devices_info[d].known THEN devices_info[d] ELSE DeviceInfo,
                      default_collections),
          TRUE)

\* update_query(s.new_keys) after rescan s, over the live queues, info the
\* registry once their devices are registered, o1 and o2 the draws.
UpdateQueries(s, info, o1, o2) ==
    CommitAll([d \in Devices |->
                 IF device_queues[d].live /\ s.new_keys # <<>>
                 THEN UpdateQuery([WOf(d) EXCEPT !.md = s.md], info[d],
                                  default_collections, s.new_keys,
                                  IF d = "d1" THEN o1 ELSE o2)
                 ELSE WOf(d)])

\* update_content past sync_files, s what the rescan gave.
UpdateContentWith(s) ==
    LET info == [d \in Devices |->
                   IF device_queues[d].live /\ s.new_keys # <<>> /\ ~devices_info[d].known
                   THEN DeviceInfo ELSE devices_info[d]]
    IN /\ media_dict' = s.md
       /\ devices_info' = info
       /\ devices_file' = IF info = devices_info THEN devices_file
                          ELSE WriteFile(devices_file, info)
       /\ \E o1 \in DrawsUpdate("d1", s), o2 \in DrawsUpdate("d2", s) :
             UpdateQueries(s, info, o1, o2)

\* routes/admin.py update_content: sync_files, then update_query(new_keys)
\* when the scan minted keys.
UpdateContent ==
    /\ ~call.active
    /\ UpdateContentWith(SyncFiles(media_dict, fs, dirs))
    /\ UNCHANGED <<default_collections, default_file, call, ret>>
    /\ unchangedFs
    /\ unchangedRest

\* DeviceQueueManager._load_default_collections(None)
LoadDefaultCollections(file) ==
    IF Readable(file) /\ SanitizeCollections(file.data) # <<>>
    THEN SanitizeCollections(file.data)
    ELSE SanitizeCollections(FallbackCollections)

\* _load_devices_info that takes whatever the file holds.
LoadDevicesInfo_Unchecked(file) ==
    IF file.exists THEN file.data ELSE [d \in Devices |-> NoDeviceInfo]

\* DeviceQueueManager._load_devices_info
LoadDevicesInfo(file) ==
    IF Readable(file) THEN file.data ELSE [d \in Devices |-> NoDeviceInfo]

\* The process is started (src/settings.py) over the storage files given: a
\* new MediaDict scans the tree, a new manager loads its storage; every queue
\* object and thread of the process before is gone.
StartProcess(queues, devices, defaults) ==
    /\ media_dict' = SyncFiles(EmptyMediaDict, fs, dirs).md
    /\ default_collections' = LoadDefaultCollections(defaults)
    /\ devices_info' = LoadDevicesInfo(devices)
    /\ device_queues' = [d \in Devices |-> NoQueue]
    /\ prefetch' = [d \in Devices |-> NoThread]
    /\ hist' = [d \in Devices |->
                  [hist[d] EXCEPT !.resumed = TRUE, !.since = <<>>,
                                  !.damaged = queues[d].corrupt,
                                  !.persisted = IF Readable(queues[d])
                                                THEN queues[d].data ELSE <<>>]]
    /\ queue_file' = queues
    /\ devices_file' = devices
    /\ default_file' = defaults
    /\ orphans' = [d \in Devices |-> NoThread]
    /\ scan' = NoScan
    /\ UNCHANGED <<ret, writable>>
    /\ unchangedFs

\* The process is started between two requests.
StartOver(queues, devices, defaults) ==
    /\ ~call.active
    /\ StartProcess(queues, devices, defaults)
    /\ UNCHANGED call

\* The process is stopped and started again over the storage it left.
Restart == StartOver(queue_file, devices_file, default_file)

\* A storage file whose bytes were damaged, when hit says so and it exists.
Damaged(file, hit) == IF hit /\ file.exists THEN [file EXCEPT !.corrupt = TRUE] ELSE file

\* The process is stopped, storage files are damaged (the queue files, the
\* registry, the defaults, as q, r, c say) and the process is started again.
CorruptRestart(q, r, c) ==
    StartOver([d \in Devices |-> Damaged(queue_file[d], q)],
              Damaged(devices_file, r), Damaged(default_file, c))

\* ------------------------------------------------- prefetch worker
\* The worker thread takes its copy of the list: list(reversed(self.queue)).
WorkerStart(d) ==
    /\ prefetch[d].alive /\ prefetch[d].pc = "start"
    /\ prefetch' = [prefetch EXCEPT ![d].pc = "loop",
                                    ![d].todo = Reverse(device_queues[d].queue)]
    /\ UNCHANGED <<media_dict, device_queues, queue_file, hist, call, ret, ops>>
    /\ unchangedSettings
    /\ unchangedFs
    /\ unchangedRest

WorkerLoop(d) ==
    /\ prefetch[d].alive /\ prefetch[d].pc = "loop" /\ prefetch[d].todo # <<>>
    /\ Commit(d, WorkerPass(WOf(d), fs, dirs))
    /\ UNCHANGED <<call, ret, ops>>
    /\ unchangedSettings
    /\ unchangedFs
    /\ unchangedRest

WorkerDone(d) ==
    /\ prefetch[d].alive /\ prefetch[d].pc = "loop" /\ prefetch[d].todo = <<>>
    /\ Commit(d, WorkerEnd(WOf(d)))
    /\ UNCHANGED <<call, ret, ops>>
    /\ unchangedSettings
    /\ unchangedFs
    /\ unchangedRest

\* ------------------------------------------- deleting a queue, a device
\* DeviceQueue.delete_dump: the file is unlinked (or stays when the unlink
\* raises) and the list is emptied.
DeleteDump(w) ==
    [w EXCEPT !.file = IF writable THEN AbsentFile ELSE @, !.dq.queue = <<>>]

\* The settings get_device_data works with for device d.
InfoOf(d) == IF devices_info[d].known THEN devices_info[d] ELSE DeviceInfo

\* The worker left behind when device d's queue object is dropped from
\* device_queues: the object's worker when one is alive (its copy of the list
\* is empty when it had not taken it yet), else the one left behind before.
Dropped(d) ==
    IF prefetch[d].alive
    THEN [prefetch[d] EXCEPT !.pc = "loop",
                             !.todo = IF prefetch[d].pc = "start" THEN <<>> ELSE @]
    ELSE orphans[d]

\* DeviceQueueManager.delete_queue(d): the registry m, the queue w and the
\* worker left behind, o the draw of the queue created when d has none.
DeleteQueueOf(d, o) ==
    IF device_queues[d].live
    THEN [m |-> [info |-> devices_info, file |-> devices_file],
          w |-> [DeleteDump(WOf(d)) EXCEPT !.dq = NoQueue, !.pf = NoThread],
          orphan |-> Dropped(d)]
    ELSE [m |-> GetDeviceInfo([info |-> devices_info, file |-> devices_file], d),
          w |-> DeleteDump(GetDeviceData(WOf(d), InfoOf(d), default_collections, o)),
          orphan |-> orphans[d]]

\* delete_device that empties the registry instead of removing one entry.
RemoveDevice_ClearsRegistry(d, r) ==
    [r EXCEPT !.m = [info |-> [e \in Devices |-> NoDeviceInfo],
                     file |-> WriteFile(r.m.file, [e \in Devices |-> NoDeviceInfo])],
              !.w.h.deleted = TRUE]

\* delete_device(d) past delete_queue, which left r: the settings entry is
\* removed and the registry saved.
RemoveDevice(d, r) ==
    [r EXCEPT !.m = IF r.m.info[d].known
                    THEN [info |-> [r.m.info EXCEPT ![d] = NoDeviceInfo],
                          file |-> WriteFile(r.m.file, [r.m.info EXCEPT ![d] = NoDeviceInfo])]
                    ELSE @,
              !.w.h.deleted = TRUE]

\* The request leaves r for device d.
CommitDelete(d, r) ==
    /\ Commit(d, r.w)
    /\ orphans' = [orphans EXCEPT ![d] = r.orphan]
    /\ devices_info' = r.m.info
    /\ devices_file' = r.m.file

\* The draws of delete_queue(d).
DrawsDelete(d) ==
    Draws(~device_queues[d].live /\ ~InfoOf(d).sequential_mode,
          AllowedKeys(media_dict, InfoOf(d), default_collections), TRUE)

\* DeviceQueueManager.delete_queue(d) (admin: clear_queue).  The model
\* follows one left-behind worker per device.
DeleteQueue(d) ==
    /\ ~call.active
    /\ ~(orphans[d].alive /\ prefetch[d].alive)
    /\ \E o \in DrawsDelete(d) : CommitDelete(d, DeleteQueueOf(d, o))
    /\ UNCHANGED <<default_collections, default_file, call, ret, scan, writable>>
    /\ unchangedFs

\* DeviceQueueManager.delete_device(d) (admin: delete_device)
DeleteDevice(d) ==
    /\ ~call.active
    /\ ~(orphans[d].alive /\ prefetch[d].alive)
    /\ \E o \in DrawsDelete(d) : CommitDelete(d, RemoveDevice(d, DeleteQueueOf(d, o)))
    /\ UNCHANGED <<default_collections, default_file, call, ret, scan, writable>>
    /\ unchangedFs

\* One key of a left-behind worker's loop: its object's list is empty, so
\* list.remove raises ValueError and nothing is removed.
OrphanLoop(d) ==
    /\ orphans[d].alive /\ orphans[d].todo # <<>>
    /\ media_dict' = EnsureMetadata(media_dict, fs, dirs, Head(orphans[d].todo)).md
    /\ orphans' = [orphans EXCEPT ![d].todo = Tail(@)]
    /\ UNCHANGED <<device_queues, prefetch, queue_file, hist, call, ret, ops,
                   scan, writable>>
    /\ unchangedSettings
    /\ unchangedFs

\* A left-behind worker's end: it saves its object's list, which is empty,
\* when it had removed something.
OrphanDone(d) ==
    /\ orphans[d].alive /\ orphans[d].todo = <<>>
    /\ queue_file' = [queue_file EXCEPT ![d] =
                         IF orphans[d].modified THEN WriteFile(@, <<>>) ELSE @]
    /\ orphans' = [orphans EXCEPT ![d] = NoThread]
    /\ UNCHANGED <<media_dict, device_queues, prefetch, hist, call, ret, ops,
                   scan, writable>>
    /\ unchangedSettings
    /\ unchangedFs

\* ------------------------------------------------------- filesystem
FolderExists(p) == CollectionId(p) = "" \/ CollectionId(p) \in dirs

unchangedProgram ==
    UNCHANGED <<media_dict, devices_info, default_collections, device_queues, prefetch,
                queue_file, devices_file, default_file, call, ret, ops, hist>>

CreateFile(p) ==
    /\ fsOps < MaxFsOps
    /\ fs[p] = NoFile /\ FolderExists(p)
    /\ fs' = [fs EXCEPT ![p] = nextIno]
    /\ nextIno' = nextIno + 1
    /\ fsOps' = fsOps + 1
    /\ UNCHANGED dirs
    /\ unchangedProgram
    /\ unchangedRest

DeleteFile(p) ==
    /\ fsOps < MaxFsOps
    /\ fs[p] # NoFile
    /\ fs' = [fs EXCEPT ![p] = NoFile]
    /\ fsOps' = fsOps + 1
    /\ UNCHANGED <<dirs, nextIno>>
    /\ unchangedProgram
    /\ unchangedRest

RenameFile(p, q) ==
    /\ fsOps < MaxFsOps
    /\ p # q /\ fs[p] # NoFile /\ fs[q] = NoFile /\ FolderExists(q)
    /\ fs' = [fs EXCEPT ![p] = NoFile, ![q] = fs[p]]
    /\ fsOps' = fsOps + 1
    /\ UNCHANGED <<dirs, nextIno>>
    /\ unchangedProgram
    /\ unchangedRest

LinkFile(p, q) ==
    /\ fsOps < MaxFsOps
    /\ p # q /\ fs[p] # NoFile /\ fs[q] = NoFile /\ FolderExists(q)
    /\ fs' = [fs EXCEPT ![q] = fs[p]]
    /\ fsOps' = fsOps + 1
    /\ UNCHANGED <<dirs, nextIno>>
    /\ unchangedProgram
    /\ unchangedRest

DeleteFolder ==
    /\ fsOps < MaxFsOps
    /\ "trip" \in dirs
    /\ dirs' = dirs \ {"trip"}
    /\ fs' = [p \in Paths |-> IF CollectionId(p) = "trip" THEN NoFile ELSE fs[p]]
    /\ fsOps' = fsOps + 1
    /\ UNCHANGED nextIno
    /\ unchangedProgram
    /\ unchangedRest

\* The filesystem watcher's on_created / on_deleted: a rescan.
WatcherSync ==
    /\ media_dict' = SyncFiles(media_dict, fs, dirs).md
    /\ media_dict' # media_dict
    /\ UNCHANGED <<devices_info, default_collections, device_queues, prefetch,
                   queue_file, devices_file, default_file, call, ret, ops, hist>>
    /\ unchangedFs
    /\ unchangedRest

\* sync_files as the watcher thread runs it beside the request thread, which
\* holds no lock: the steps between which another thread sees the catalog.
\* The scan's working state, read from the catalog object it mutates in place
\* and from the call's locals.
ScanOf(md, sc) ==
    [items |-> md.items,
     file_id_to_key |-> md.file_id_to_key,
     key_to_file_id |-> md.key_to_file_id,
     collection_keys |-> md.collection_keys,
     new_keys |-> sc.new_keys,
     found_keys |-> sc.found_keys]

\* The catalog object while scan state s is being built in it.
InPlace(md, s) ==
    [md EXCEPT !.items = s.items,
               !.file_id_to_key = s.file_id_to_key,
               !.key_to_file_id = s.key_to_file_id,
               !.collection_keys = s.collection_keys]

\* The watcher enters sync_files: the locals are fresh, collection_keys is
\* replaced by an empty dict and the folders are registered again.
SyncFilesBegin ==
    /\ ~scan.active
    /\ media_dict' = [InPlace(media_dict, ScanStart(media_dict))
                        EXCEPT !.collections = {""} \cup dirs]
    /\ scan' = [active |-> TRUE, p |-> 1, new_keys |-> <<>>, found_keys |-> {},
                before |-> media_dict, keys |-> <<>>, raised |-> FALSE]
    /\ UNCHANGED <<devices_info, default_collections, device_queues, prefetch,
                   queue_file, devices_file, default_file, call, ret, ops, hist,
                   orphans, writable>>
    /\ unchangedFs

\* The scan loop has handled one more directory entry, leaving s.
SyncFilesScanned(s) ==
    /\ media_dict' = InPlace(media_dict, s)
    /\ scan' = [scan EXCEPT !.p = @ + 1, !.new_keys = s.new_keys,
                            !.found_keys = s.found_keys]

\* One iteration of the watcher's scan loop.
SyncFilesStep ==
    /\ scan.active /\ scan.p <= 4
    /\ SyncFilesScanned(IF fs[scan.p] # NoFile
                        THEN SyncFile(ScanOf(media_dict, scan), scan.p, fs[scan.p])
                        ELSE ScanOf(media_dict, scan))
    /\ UNCHANGED <<devices_info, default_collections, device_queues, prefetch,
                   queue_file, devices_file, default_file, call, ret, ops, hist,
                   orphans, writable>>
    /\ unchangedFs

\* The watcher's scan loop is over: pruning, photo_keys, return.
SyncFilesEnd ==
    /\ scan.active /\ scan.p > 4
    /\ media_dict' = SyncEnd(ScanOf(media_dict, scan), dirs).md
    /\ scan' = NoScan
    /\ UNCHANGED <<devices_info, default_collections, device_queues, prefetch,
                   queue_file, devices_file, default_file, call, ret, ops, hist,
                   orphans, writable>>
    /\ unchangedFs

\* storage_dir stops accepting writes (open("wb") raises), and accepts them
\* again.
DiskFails ==
    /\ writable /\ writable' = FALSE
    /\ UNCHANGED <<orphans, scan>>
    /\ unchangedProgram
    /\ unchangedFs

DiskRecovers ==
    /\ ~writable /\ writable' = TRUE
    /\ UNCHANGED <<orphans, scan>>
    /\ unchangedProgram
    /\ unchangedFs

\* --------------------------------------------------- specifications
\* Any subset of the four entries exists at start, each its own file;
\* MediaDict.__init__ scans the tree and the manager finds no storage.
Init ==
    /\ fs \in [Paths -> 0..4]
    /\ \A p \in Paths : fs[p] \in {NoFile, p}
    /\ dirs = {"trip"}
    /\ nextIno = 5
    /\ fsOps = 0
    /\ media_dict = SyncFiles(EmptyMediaDict, fs, dirs).md
    /\ devices_info = [d \in Devices |-> NoDeviceInfo]
    /\ devices_file = [exists |-> FALSE, corrupt |-> FALSE, data |-> devices_info]
    /\ default_file = [exists |-> FALSE, corrupt |-> FALSE, data |-> <<>>]
    /\ default_collections = LoadDefaultCollections(default_file)
    /\ device_queues = [d \in Devices |-> NoQueue]
    /\ prefetch = [d \in Devices |-> NoThread]
    /\ queue_file = [d \in Devices |-> AbsentFile]
    /\ call = Idle
    /\ ret = NoRet
    /\ ops = 0
    /\ orphans = [d \in Devices |-> NoThread]
    /\ scan = NoScan
    /\ writable = TRUE
    /\ hist = [d \in Devices |-> NoHist]

\* A manager request runs when no other is running (the handlers share one
\* event loop) and counts against the budget.
Request == ops < MaxOps /\ ops' = ops + 1

\* The collection selections a request can carry.
Selections == {<<>>, <<"">>, <<"trip">>, <<"", "trip">>, <<"gone">>}

Next ==
    \/ \E d \in {"d1"} : Request /\ GetNext(d)
    \/ GetNextLoop
    \/ \E d \in {"d1"}, b \in BOOLEAN, s \in BOOLEAN :
          Request /\ UpdateDeviceInfo(d, b, s, FALSE)
    \/ \E d \in {"d1"}, n \in BOOLEAN, c \in Selections, k \in BOOLEAN :
          Request /\ SetDeviceCollections(d, n, c, k)
    \/ \E c \in Selections : Request /\ SetDefaultCollections(c)
    \/ Request /\ UpdateContent
    \/ Request /\ Restart
    \/ \E d \in Devices : WorkerStart(d)
    \/ \E d \in Devices : WorkerLoop(d)
    \/ \E d \in Devices : WorkerDone(d)
    \/ \E p \in Paths : CreateFile(p)
    \/ \E p \in Paths : DeleteFile(p)
    \/ \E p, q \in Paths : RenameFile(p, q)
    \/ \E p, q \in Paths : LinkFile(p, q)
    \/ DeleteFolder
    \/ WatcherSync

Spec == Init /\ [][Next]_vars

\* The process starts over storage an earlier run left: device d1 is
\* registered with some settings, no queue file yet.
StoredCollections ==
    {NoCollections} \cup {[isNone |-> FALSE, ids |-> c] : c \in {<<"trip">>, <<"", "trip">>}}

InitStored ==
    /\ fs \in [Paths -> 0..4]
    /\ \A p \in Paths : fs[p] \in {NoFile, p}
    /\ dirs = {"trip"}
    /\ nextIno = 5
    /\ fsOps = 0
    /\ media_dict = SyncFiles(EmptyMediaDict, fs, dirs).md
    /\ \E only_photo \in BOOLEAN, sequential_mode \in BOOLEAN, c \in StoredCollections :
          devices_file =
              [exists |-> TRUE, corrupt |-> FALSE,
               data |-> [d \in Devices |->
                           IF d = "d1"
                           THEN [DeviceInfo EXCEPT !.only_photo = only_photo,
                                                   !.sequential_mode = sequential_mode,
                                                   !.collections = c]
                           ELSE NoDeviceInfo]]
    /\ devices_info = LoadDevicesInfo(devices_file)
    /\ default_file = [exists |-> FALSE, corrupt |-> FALSE, data |-> <<>>]
    /\ default_collections = LoadDefaultCollections(default_file)
    /\ device_queues = [d \in Devices |-> NoQueue]
    /\ prefetch = [d \in Devices |-> NoThread]
    /\ queue_file = [d \in Devices |-> AbsentFile]
    /\ call = Idle
    /\ ret = NoRet
    /\ ops = 0
    /\ orphans = [d \in Devices |-> NoThread]
    /\ scan = NoScan
    /\ writable = TRUE
    /\ hist = [d \in Devices |-> NoHist]

\* One device asks for its next item again and again over an unchanging
\* tree.
NextCycle ==
    \/ GetNext("d1") /\ UNCHANGED ops
    \/ GetNextLoop
    \/ WorkerStart("d1")
    \/ WorkerLoop("d1")
    \/ WorkerDone("d1")

SpecCycle == InitStored /\ [][NextCycle]_vars

\* The same with restarts of the process between two requests.
NextRestart ==
    \/ NextCycle
    \/ Restart /\ UNCHANGED ops

\* The stored settings over a tree of at most MaxFiles files.
InitRestart == InitStored /\ Cardinality({p \in Paths : fs[p] # NoFile}) <= MaxFiles

SpecRestart == InitRestart /\ [][NextRestart]_vars

\* The library holds a.jpg, b.mp4 and trip/c.jpg at start and nothing is
\* stored.
InitFull == Init /\ \A p \in Paths : fs[p] = IF p = 4 THEN NoFile ELSE p

\* A filesystem mutation while devices are being served.
Change == fsOps < MaxChanges

\* The manager's requests for device d1 and the admin's, over a tree that
\* changes under the watcher; no prefetch worker is scheduled.
NextManager ==
    \/ Request /\ GetNext("d1")
    \/ GetNextLoop
    \/ \E b \in BOOLEAN, q \in BOOLEAN : Request /\ UpdateDeviceInfo("d1", b, q, FALSE)
    \/ Request /\ SetDeviceCollections("d1", TRUE, <<>>, FALSE)
    \/ \E c \in Selections, k \in BOOLEAN : Request /\ SetDeviceCollections("d1", FALSE, c, k)
    \/ \E c \in Selections : Request /\ SetDefaultCollections(c)
    \/ Request /\ UpdateContent
    \/ Request /\ Restart
    \/ \E p \in Paths : Change /\ CreateFile(p)
    \/ \E p \in Paths : Change /\ DeleteFile(p)
    \/ Change /\ DeleteFolder
    \/ WatcherSync

SpecManager == InitFull /\ [][NextManager]_vars

\* Requests, rescans and restarts for device d1 with its prefetch worker
\* running beside them.
NextWorker ==
    \/ Request /\ GetNext("d1")
    \/ GetNextLoop
    \/ Request /\ UpdateContent
    \/ Request /\ Restart
    \/ WorkerStart("d1")
    \/ WorkerLoop("d1")
    \/ WorkerDone("d1")
    \/ \E p \in Paths : Change /\ CreateFile(p)
    \/ \E p \in Paths : Change /\ DeleteFile(p)
    \/ WatcherSync

SpecWorker == Init /\ [][NextWorker]_vars

\* ------------------------------------------------- one device's cycle
\* C1 (no repeat before reset): with a fixed allow-list, only_photo off and
\* every file present, no key is returned twice between two refills and
\* every key the refill installed - the whole allow-list - is either still in
\* the list or has been returned: none is dropped unreturned.
C1_NoRepeatPerCycle ==
    \A d \in Devices :
        (device_queues[d].live /\ ~devices_info[d].only_photo) =>
            /\ ~hist[d].repeat
            /\ hist[d].installed = Range(device_queues[d].allowed.keys)
            /\ hist[d].served \cup Range(device_queues[d].queue) = hist[d].installed

\* C4 (crash recovery): after a restart that found N keys persisted for a
\* device (only_photo off, tree unchanged), the first N items returned to the
\* device are those keys, the last persisted first.
C4_CrashRecovery ==
    \A d \in Devices :
        (hist[d].resumed /\ ~devices_info[d].only_photo) =>
            \A i \in 1..Len(hist[d].since) :
                hist[d].since[i] = hist[d].persisted[Len(hist[d].persisted) + 1 - i]

\* C7 (termination): every get_next call returns; a call in progress is
\* therefore never, after a refill by its loop, where it was after an earlier
\* refill by its loop: from there the same passes can follow again, and again.
C7_Terminates == ~call.back

\* ------------------------------------------------ the manager's requests
\* The allow-list the manager would resolve for device d now.
CurrentAllowList(d) == AllowedKeys(media_dict, devices_info[d], default_collections)

\* C2 as stated: in every reachable state every key of a device's remaining
\* list is a catalog key of the device's active collections.
C2_ListWithinCurrentAllowList ==
    \A d \in Devices :
        device_queues[d].live =>
            Range(device_queues[d].queue) \subseteq Range(CurrentAllowList(d))

\* C2 (allow-list containment), amended: in every reachable state the queue
\* of a served device holds an allow-list and every key of its remaining
\* list is in that allow-list, the catalog keys of the device's active
\* collections as resolved at the last request that touched the queue.
C2_ListWithinHeldAllowList ==
    \A d \in Devices :
        device_queues[d].live =>
            /\ device_queues[d].allowed.isSet
            /\ Range(device_queues[d].queue) \subseteq Range(device_queues[d].allowed.keys)

\* A list that kept, within its allow-list, a key the catalog has lost since.
C2_Witness ==
    /\ device_queues["d1"].live
    /\ device_queues["d1"].allowed.isSet
    /\ Range(device_queues["d1"].allowed.keys) # Range(DictKeys(media_dict))
    /\ \E k \in Range(device_queues["d1"].queue) : k \notin Range(CurrentAllowList("d1"))

\* C3 (no duplicates): in every reachable state no key occurs twice in a
\* device's remaining list.
C3_NoDuplicates == \A d \in Devices : NoDup(device_queues[d].queue)

\* New keys were merged into a list that already held one of them.
C3_Witness ==
    /\ device_queues["d1"].live
    /\ hist["d1"].merged
    /\ Len(device_queues["d1"].queue) >= 2
    /\ ops >= 2

\* C5 (filter change): when the allow-list was replaced by B while 2 keys
\* remained and the old allow-list shared one key with B, then the list holds
\* keys of B only, each once, the refill that followed installed exactly the
\* keys of B, and a refill now would install every key of B once and no other.
C5_FilterChange ==
    \A d \in Devices :
        (device_queues[d].live /\ hist[d].left = 2 /\ hist[d].common = 1) =>
            /\ Range(device_queues[d].queue) \subseteq Range(device_queues[d].allowed.keys)
            /\ NoDup(device_queues[d].queue)
            /\ hist[d].installed = Range(device_queues[d].allowed.keys)
            /\ \A o \in Orders :
                  LET r == UpdateQueue(WOf(d), FALSE, <<>>, TRUE, o).dq.queue
                  IN NoDup(r) /\ Range(r) = Range(device_queues[d].allowed.keys)

\* An allow-list of three or more keys, drained to two, replaced by one that
\* shares a single key with it.
C5_Witness ==
    /\ device_queues["d1"].live
    /\ hist["d1"].from >= 3
    /\ hist["d1"].left = 2
    /\ hist["d1"].common = 1
    /\ device_queues["d1"].queue # <<>>

\* C6 (photos only): a get_next call made with only_photo set never returns
\* a record that is a video.
C6_PhotoOnly == (ret.kind = "media" /\ ret.only_photo) => ~ret.is_video

\* A call with only_photo that returned a photo after popping and discarding
\* the video of the allow-list.
C6_Witness ==
    /\ ret.kind = "media" /\ ret.only_photo
    /\ Md5(2) \in hist["d1"].installed
    /\ Md5(2) \notin hist["d1"].served
    /\ Md5(2) \notin Range(device_queues["d1"].queue)
    /\ ~call.active

\* C8 (no fallback): a get_next call for a device whose allow-list resolved
\* to nothing returns no media.
C8_NoFallback == ret.no_allowed => ret.kind = "none"

\* The device selected collections the catalog does not have, the default
\* collections hold media, and the call returned no media.
C8_Witness ==
    /\ ret.no_allowed /\ ret.kind = "none"
    /\ ~devices_info["d1"].collections.isNone
    /\ devices_info["d1"].collections.ids # <<>>
    /\ \A c \in Range(devices_info["d1"].collections.ids) : c \notin media_dict.collections
    /\ GetKeysForCollections(media_dict, default_collections) # <<>>
    /\ ~call.active

\* ------------------------------------------------------ the catalog alone
\* The tree changes under the watcher; no device asks for anything.
NextCatalog ==
    \/ \E p \in Paths : CreateFile(p)
    \/ \E p \in Paths : DeleteFile(p)
    \/ \E p, q \in Paths : RenameFile(p, q)
    \/ \E p, q \in Paths : LinkFile(p, q)
    \/ DeleteFolder
    \/ WatcherSync

SpecCatalog == Init /\ [][NextCatalog]_vars

\* The catalog a sync_files() run leaves in the current state.
Synced == SyncFiles(media_dict, fs, dirs).md

\* Key k is the catalog's key of the file of inode i, which is still in
\* the tree but no longer at the path recorded for k: it was renamed or moved
\* since the last scan.
Moved(k, i) ==
    /\ HasKey(media_dict, k)
    /\ media_dict.key_to_file_id[k] = i
    /\ media_dict.file_id_to_key[i] = k
    /\ fs[Item(media_dict, k).file] # i
    /\ \E q \in Paths : fs[q] = i

\* C9 (identity stability): when a file known under key K has been renamed or
\* moved inside the media root, then after sync_files() the catalog still has
\* K, K's record names a path that holds that very file, and looking K up
\* (as a pop does) yields a record instead of None.
C9_IdentityStability ==
    \A k \in Keys, i \in Inodes :
        Moved(k, i) =>
            /\ HasKey(Synced, k)
            /\ fs[Item(Synced, k).file] = i
            /\ GetItem(Synced, fs, dirs, k).found

\* The collection id lists a caller can pass, repeats included.
IdLists ==
    {<<>>} \cup {<<a>> : a \in {"", "trip", "gone"}}
           \cup {<<a, b>> : a, b \in {"", "trip", "gone"}}

\* The catalog keys that claim identity i.
KeysOfIdentity(md, i) == {k \in Range(DictKeys(md)) : md.key_to_file_id[k] = i}

\* C10 (dedup by identity): after sync_files(), directory entries of one
\* filesystem identity map to one catalog key with one record, and
\* get_keys_for_collections(ids) lists no key twice and no two keys whose
\* files are the same physical file, for every list of collection ids.
C10_DedupByIdentity ==
    /\ NoDup(DictKeys(Synced))
    /\ \A p, q \in Paths :
          (fs[p] # NoFile /\ fs[p] = fs[q]) =>
              /\ HasKey(Synced, Synced.file_id_to_key[fs[p]])
              /\ Cardinality(KeysOfIdentity(Synced, fs[p])) <= 1
    /\ \A ids \in IdLists :
          LET ks == GetKeysForCollections(Synced, ids)
          IN /\ NoDup(ks)
             /\ \A a, b \in 1..Len(ks) :
                   a # b => fs[Item(Synced, ks[a]).file] # fs[Item(Synced, ks[b]).file]

\* A file linked into both folders, so that both collections list its key.
C10_Witness ==
    \E p \in Paths, q \in Paths :
        /\ CollectionId(p) # CollectionId(q)
        /\ fs[p] # NoFile /\ fs[p] = fs[q]
        /\ Synced.file_id_to_key[fs[p]] \in Range(Synced.collection_keys[""])
        /\ Synced.file_id_to_key[fs[p]] \in Range(Synced.collection_keys["trip"])
        /\ Len(GetKeysForCollections(Synced, <<"", "trip">>))
              < Len(CollectKeys(Synced, <<"", "trip">>))

\* C11 (distinct files, distinct keys): after sync_files() no two distinct
\* physical files of the tree have the same catalog key.
C11_InjectiveKeys ==
    \A p, q \in Paths :
        (fs[p] # NoFile /\ fs[q] # NoFile /\ fs[p] # fs[q]) =>
            Synced.file_id_to_key[fs[p]] # Synced.file_id_to_key[fs[q]]

\* ------------------------------------------- lookups beside a rescan
\* The watcher rescans, step by step, a tree that changes only between two
\* rescans.
NextSync ==
    \/ \E p \in Paths : ~scan.active /\ CreateFile(p)
    \/ \E p \in Paths : ~scan.active /\ DeleteFile(p)
    \/ SyncFilesBegin
    \/ SyncFilesStep
    \/ SyncFilesEnd

SpecSync == Init /\ [][NextSync]_vars

\* C12 (no half-built index): while the watcher is inside sync_files, what
\* get_keys_for_collections returns to another thread is what it returned
\* before the rescan or what it returns after it, for every selection.
C12_NeverHalfBuilt ==
    scan.active =>
        \A ids \in Selections :
            GetKeysForCollections(media_dict, ids) \in
                {GetKeysForCollections(scan.before, ids),
                 GetKeysForCollections(SyncFiles(scan.before, fs, dirs).md, ids)}

\* ------------------------------------------------ a lookup finds no file
\* The file of catalog key k was deleted: nothing is at the path its record
\* names and no entry of the tree has its identity.
Deleted(k) ==
    /\ fs[Item(media_dict, k).file] = NoFile
    /\ \A p \in Paths : fs[p] # media_dict.key_to_file_id[k]

\* Catalog md holds key k nowhere.
Absent(md, k) ==
    /\ ~HasKey(md, k)
    /\ \A c \in {"", "trip"} : k \notin Range(md.collection_keys[c])
    /\ \A ids \in Selections : k \notin Range(GetKeysForCollections(md, ids))

\* C13 (lazy self-healing): when the file of a catalog key was deleted and no
\* rescan has run since, a lookup of the key finds nothing and leaves a
\* catalog that holds the key nowhere.
C13_SelfHealing ==
    \A k \in Range(DictKeys(media_dict)) :
        Deleted(k) => /\ ~GetItem(media_dict, fs, dirs, k).found
                      /\ Absent(GetItem(media_dict, fs, dirs, k).md, k)

\* ------------------------------------------------ the admin's requests
\* Device d1 is served while the admin clears queues, deletes devices and
\* changes the defaults, the prefetch workers running beside them.
NextAdmin ==
    \/ Request /\ GetNext("d1")
    \/ GetNextLoop
    \/ Request /\ DeleteQueue("d1")
    \/ Request /\ DeleteDevice("d1")
    \/ \E c \in Selections : Request /\ SetDefaultCollections(c)
    \/ WorkerStart("d1")
    \/ WorkerLoop("d1")
    \/ WorkerDone("d1")
    \/ OrphanLoop("d1")
    \/ OrphanDone("d1")
    \/ \E p \in Paths : Change /\ DeleteFile(p)
    \/ WatcherSync

SpecAdmin == InitFull /\ [][NextAdmin]_vars

\* C16 (a deleted device is gone): from the return of delete_device(d) until
\* the next request about d, d has no entry in devices_info, none in
\* devices.pkl and no queue file, whatever the background workers do.
C16_DeviceGone ==
    \A d \in Devices :
        hist[d].deleted =>
            /\ ~devices_info[d].known
            /\ Readable(devices_file) => ~devices_file.data[d].known
            /\ ~queue_file[d].exists

\* C14 (new defaults reach the live queues at once): when
\* set_default_collections has changed the defaults, every live queue of a
\* device without collections of its own holds the keys of the new defaults
\* as its allow-list and a list within them.
C14_DefaultsApplied ==
    [][default_collections' # default_collections =>
          \A d \in Devices :
              (device_queues'[d].live /\ devices_info'[d].collections.isNone) =>
                  /\ device_queues'[d].allowed.isSet
                  /\ device_queues'[d].allowed.keys =
                         GetKeysForCollections(media_dict', default_collections')
                  /\ Range(device_queues'[d].queue) \subseteq
                         Range(device_queues'[d].allowed.keys)]_vars

\* -------------------------------------------------- position and total
\* Device d1 is served with and without counters while its settings and the
\* tree change and its prefetch worker runs.
NextCounters ==
    \/ Request /\ GetNext("d1")
    \/ GetNextLoop
    \/ \E b \in BOOLEAN, c \in BOOLEAN : Request /\ UpdateDeviceInfo("d1", b, FALSE, c)
    \/ \E c \in Selections : Request /\ SetDeviceCollections("d1", FALSE, c, FALSE)
    \/ WorkerStart("d1")
    \/ WorkerLoop("d1")
    \/ WorkerDone("d1")
    \/ \E p \in Paths : Change /\ DeleteFile(p)
    \/ WatcherSync

SpecCounters == InitFull /\ [][NextCounters]_vars

\* C17 (position and total): a get_next call with counters that returns a
\* record returns with it the size of the device's allow-list as total and
\* total minus the length of the list after the pop as position.
C17_Counters ==
    [][(call.active /\ ~call'.active /\ ret'.counters /\ ret'.kind = "media") =>
          /\ ret'.total = Len(device_queues'[ret'.dev].allowed.keys)
          /\ ret'.position = ret'.total - Len(device_queues'[ret'.dev].queue)]_vars

\* A call with counters returned the second of the two keys of collection ""
\* as 2 of 2 while the catalog holds three keys.
C17_Witness ==
    /\ ~call.active /\ ret.counters /\ ret.kind = "media"
    /\ ret.position = 2 /\ ret.total = 2
    /\ Len(media_dict.items) = 3
    /\ device_queues["d1"].allowed.keys = <<Md5(1), Md5(2)>>
    /\ device_queues["d1"].queue = <<>>

\* ------------------------------------------- a device's own collections
\* A request changed device d's stored collections, and the keys they resolve
\* to are not the allow-list d's queue held.
SelectionChanged(d) ==
    /\ devices_info'[d].collections # devices_info[d].collections
    /\ \/ ~device_queues[d].live
       \/ ~device_queues[d].allowed.isSet
       \/ device_queues[d].allowed.keys #
              AllowedKeys(media_dict', devices_info'[d], default_collections')

\* C15 (own collections take effect at once): when set_device_collections
\* changes d's stored collections to ones that resolve to another allow-list
\* than d's queue held, the collections are in devices.pkl on return and d's
\* list holds every key of the new allow-list once and no other key.
C15_SelectionRebuilds ==
    [][\A d \in Devices :
          SelectionChanged(d) =>
              /\ devices_file'.exists
              /\ devices_file'.data[d].collections = devices_info'[d].collections
              /\ device_queues'[d].allowed.keys =
                     AllowedKeys(media_dict', devices_info'[d], default_collections')
              /\ NoDup(device_queues'[d].queue)
              /\ Range(device_queues'[d].queue) = Range(device_queues'[d].allowed.keys)]_vars

\* Device d1 chose collections of its own whose two or more keys replaced an
\* allow-list of which one key was left to serve; the list holds them all.
C15_Witness ==
    /\ ~devices_info["d1"].collections.isNone
    /\ device_queues["d1"].live
    /\ hist["d1"].from >= 2 /\ hist["d1"].left = 1
    /\ Len(device_queues["d1"].allowed.keys) >= 2
    /\ Len(device_queues["d1"].queue) = Len(device_queues["d1"].allowed.keys)
    /\ ~call.active

\* ------------------------------------------------ damaged storage files
\* Device d1 is served and configured, the defaults are changed, and the
\* process is restarted over storage files some of which were damaged.
NextCorrupt ==
    \/ Request /\ GetNext("d1")
    \/ GetNextLoop
    \/ \E c \in Selections : Request /\ SetDeviceCollections("d1", FALSE, c, FALSE)
    \/ \E c \in Selections : Request /\ SetDefaultCollections(c)
    \/ Request /\ Restart
    \/ \E q, r, c \in BOOLEAN : (q \/ r \/ c) /\ Request /\ CorruptRestart(q, r, c)

SpecCorrupt == InitFull /\ [][NextCorrupt]_vars

\* C18 (a damaged file counts as none): after every step, while devices.pkl
\* is damaged the registry is empty and while default_collections.pkl is
\* damaged the defaults are the fallback; a step that builds a queue object
\* over a damaged queue file rewrites the file and leaves the list holding
\* every key of the allow-list once.
C18_CorruptAsAbsent ==
    [][/\ devices_file'.corrupt => devices_info' = [d \in Devices |-> NoDeviceInfo]
       /\ default_file'.corrupt =>
              default_collections' = SanitizeCollections(FallbackCollections)
       /\ \A d \in Devices :
              (queue_file[d].corrupt /\ device_queues'[d].live) =>
                  /\ Readable(queue_file'[d])
                  /\ NoDup(device_queues'[d].queue)
                  /\ Range(device_queues'[d].queue) =
                         Range(device_queues'[d].allowed.keys)]_vars

\* The process started over a damaged queue file of d1, and d1 has been
\* given a queue object since: its get_next call is about to pop from a list
\* of two or more keys over files that are readable again.
C18_Witness ==
    /\ hist["d1"].damaged /\ hist["d1"].resumed
    /\ device_queues["d1"].live
    /\ Readable(queue_file["d1"]) /\ Readable(devices_file)
    /\ devices_info["d1"].collections.isNone
    /\ Len(device_queues["d1"].queue) >= 2
    /\ call.active

\* ------------------------------------------------------ failing writes
\* Device d1 is served and configured and the defaults are changed while
\* storage_dir refuses writes at times; d1's prefetch worker runs beside.
NextWrites ==
    \/ Request /\ GetNext("d1")
    \/ GetNextLoop
    \/ \E c \in Selections : Request /\ SetDeviceCollections("d1", FALSE, c, FALSE)
    \/ \E c \in Selections : Request /\ SetDefaultCollections(c)
    \/ WorkerStart("d1")
    \/ WorkerLoop("d1")
    \/ WorkerDone("d1")
    \/ DiskFails
    \/ DiskRecovers

SpecWrites == InitFull /\ [][NextWrites]_vars

\* C19 (a failed write loses nothing in memory): a get_next call that
\* returns a record has taken its key off the list whether or not the list
\* could be saved; while writes fail the files stay as they are; and a write
\* that succeeds puts into the file the list, the registry or the defaults as
\* they are in memory at that time.
C19_WriteFailure ==
    [][/\ (call.active /\ ~call'.active /\ ret'.kind = "media") =>
              ret'.key \notin Range(device_queues'[ret'.dev].queue)
       /\ ~writable =>
              /\ queue_file' = queue_file
              /\ devices_file' = devices_file
              /\ default_file' = default_file
       /\ writable =>
              /\ \A d \in Devices :
                    queue_file'[d] # queue_file[d] =>
                        queue_file'[d] = [exists |-> TRUE, corrupt |-> FALSE,
                                          data |-> device_queues'[d].queue]
              /\ devices_file' # devices_file =>
                    devices_file' = [exists |-> TRUE, corrupt |-> FALSE,
                                     data |-> devices_info']
              /\ default_file' # default_file =>
                    default_file' = [exists |-> TRUE, corrupt |-> FALSE,
                                     data |-> default_collections']]_vars

\* While writes fail a get_next call has returned a record: its key is off
\* the list in memory and still on the list in the file.
C19_Witness ==
    /\ ~writable /\ ~call.active
    /\ ret.kind = "media"
    /\ ret.key \notin Range(device_queues["d1"].queue)
    /\ queue_file["d1"].exists
    /\ ret.key \in Range(queue_file["d1"].data)
    /\ device_queues["d1"].queue # <<>>

NextDevices ==
    \/ \E d \in Devices : Request /\ GetNext(d)
    \/ GetNextLoop
    \/ \E d \in Devices, c \in {<<"">>, <<"trip">>} :
          Request /\ SetDeviceCollections(d, FALSE, c, FALSE)
    \/ \E d \in Devices : Request /\ DeleteQueue(d)
    \/ \E d \in Devices : Request /\ DeleteDevice(d)
    \/ \E d \in Devices : WorkerStart(d)
    \/ \E d \in Devices : WorkerLoop(d)
    \/ \E d \in Devices : WorkerDone(d)
    \/ \E d \in Devices : OrphanLoop(d)
    \/ \E d \in Devices : OrphanDone(d)

SpecDevices == InitFull /\ [][NextDevices]_vars

\* The step is one of get_next, set_device_collections, delete_queue and
\* delete_device for device d, or a pass of the loop of d's get_next call.
RequestFor(d) ==
    \/ GetNext(d)
    \/ call.active /\ call.dev = d /\ GetNextLoop
    \/ \E c \in {<<"">>, <<"trip">>} : SetDeviceCollections(d, FALSE, c, FALSE)
    \/ DeleteQueue(d)
    \/ DeleteDevice(d)

\* The step leaves device e's queue object, queue file, worker and settings,
\* in memory and in devices.pkl, as they were.
Untouched(e) ==
    /\ device_queues'[e] = device_queues[e]
    /\ queue_file'[e] = queue_file[e]
    /\ prefetch'[e] = prefetch[e]
    /\ devices_info'[e] = devices_info[e]
    /\ devices_file'.data[e] = devices_file.data[e]

\* C21 (device isolation): a get_next, set_device_collections, delete_queue
\* or delete_device for one device leaves the remaining list, the queue file
\* and the settings of every other device unchanged, whatever requests and
\* worker steps of the two devices came before.
C21_DeviceIsolation ==
    [][\A d \in Devices : RequestFor(d) => \A e \in Devices \ {d} : Untouched(e)]_vars

\* Device d2 is in the middle of its cycle, registered, its list saved, after
\* d1 was served and then deleted.
C21_Witness ==
    /\ hist["d1"].deleted /\ ~devices_info["d1"].known
    /\ hist["d1"].served # {}
    /\ device_queues["d2"].live /\ devices_info["d2"].known
    /\ hist["d2"].served # {}
    /\ device_queues["d2"].queue # <<>>
    /\ queue_file["d2"].data = device_queues["d2"].queue
    /\ devices_file.data["d2"].known
    /\ ~call.active

\* ------------------------------------------- the same allow-list again
\* The step is a request that resolves device d's allow-list and hands it to
\* d's queue: get_next's get_device_data, or set_device_collections.
AppliesAllowList(d) ==
    \/ GetNext(d)
    \/ \E n \in BOOLEAN, c \in Selections, k \in BOOLEAN : SetDeviceCollections(d, n, c, k)

\* Device d's queue holds a list that is not empty and the allow-list that
\* the step's request resolves for d.
HoldsResolved(d) ==
    /\ device_queues[d].live
    /\ device_queues[d].allowed.isSet
    /\ device_queues[d].queue # <<>>
    /\ device_queues[d].allowed.keys =
           AllowedKeys(media_dict, devices_info'[d], default_collections)

\* C22 (the same allow-list keeps the cycle): a get_next or a
\* set_device_collections that hands a queue with a non-empty list the
\* allow-list it already holds leaves the list as it was, keys and order, and
\* starts no new cycle; so does set_device_collections with the stored
\* selection over an unchanged catalog.
C22_SameAllowListKeeps ==
    [][\A d \in Devices :
          (AppliesAllowList(d) /\ HoldsResolved(d)) =>
              /\ device_queues'[d].queue = device_queues[d].queue
              /\ device_queues'[d].allowed = device_queues[d].allowed
              /\ hist'[d].installed = hist[d].installed
              /\ hist'[d].served = hist[d].served]_vars

\* Two get_next calls in a row took two keys of a three-key allow-list: the
\* second call handed the queue the allow-list it held and went on with the
\* list the first call left.
C22_Witness ==
    /\ device_queues["d1"].live /\ ~call.active
    /\ Len(device_queues["d1"].allowed.keys) = 3
    /\ hist["d1"].installed = Range(device_queues["d1"].allowed.keys)
    /\ Cardinality(hist["d1"].served) = 2
    /\ Len(device_queues["d1"].queue) = 1
    /\ ~hist["d1"].repeat

\* ------------------------------------------------ a crash inside get_next
\* What the process leaves of a queue file when it dies in a pass of
\* get_next's loop that pops a key of w's list: the file as it was (it died
\* before save_queue), the file that open("wb") truncated and pickle.dump had
\* not filled (it died inside save_queue), or the file holding the list
\* without the key (it died after save_queue).
SaveOutcomes(w) ==
    {w.file,
     [exists |-> TRUE, corrupt |-> TRUE, data |-> <<>>],
     [exists |-> TRUE, corrupt |-> FALSE,
      data |-> SubSeq(w.dq.queue, 1, Len(w.dq.queue) - 1)]}

\* The process dies in a pass of the loop of the get_next call in progress,
\* leaving f of the device's queue file, and is started again.
CrashInCall(f) ==
    /\ call.active
    /\ device_queues[call.dev].queue # <<>>
    /\ ~(call.only_photo /\ Len(media_dict.photo_keys) = 0)
    /\ call' = Idle
    /\ StartProcess([queue_file EXCEPT ![call.dev] = f], devices_file, default_file)

\* Device d1 is served, its prefetch worker running beside, and the process
\* is restarted between two requests or dies inside one.
NextCrash ==
    \/ Request /\ GetNext("d1")
    \/ GetNextLoop
    \/ Request /\ Restart
    \/ \E f \in SaveOutcomes(WOf(call.dev)) : Request /\ CrashInCall(f)
    \/ WorkerStart("d1")
    \/ WorkerLoop("d1")
    \/ WorkerDone("d1")

SpecCrash == InitFull /\ [][NextCrash]_vars

\* C23 (the pop is on disk before the return): when get_next returns the
\* record of key K the queue file holds the list without K; a process that
\* dies inside get_next leaves a readable queue file holding the list as it
\* was before or after the pop; and the calls after a restart return keys of
\* the list the restart found persisted until that many were returned, so
\* none that was returned before in the cycle.
C23_PopPersisted ==
    /\ [][/\ (call.active /\ ~call'.active /\ device_queues'[call.dev].live
                 /\ ret'.kind = "media") =>
                /\ Readable(queue_file'[call.dev])
                /\ queue_file'[call.dev].data = device_queues'[call.dev].queue
                /\ ret'.key \notin Range(queue_file'[call.dev].data)
          /\ (call.active /\ ~call'.active /\ ~device_queues'[call.dev].live) =>
                /\ Readable(queue_file'[call.dev])
                /\ queue_file'[call.dev].data \in
                      {device_queues[call.dev].queue,
                       SubSeq(device_queues[call.dev].queue, 1,
                              Len(device_queues[call.dev].queue) - 1)}]_vars
    /\ [](\A d \in Devices :
             hist[d].resumed =>
                 \A i \in 1..Len(hist[d].since) :
                     hist[d].since[i] \in Range(hist[d].persisted))

\* ------------------------------------------ two saves of one queue file
\* The worker's save_queue beside the request thread, which holds no lock:
\* the worker opens the file, which truncates it, and pickles the list as it
\* is at that time.
WorkerDump(d) ==
    /\ prefetch[d].alive /\ prefetch[d].pc = "loop" /\ prefetch[d].todo = <<>>
    /\ prefetch[d].modified /\ writable
    /\ prefetch' = [prefetch EXCEPT ![d].pc = "save",
                                    ![d].dumped = device_queues[d].queue]
    /\ queue_file' = [queue_file EXCEPT ![d] =
                         [exists |-> TRUE, corrupt |-> TRUE, data |-> <<>>]]
    /\ UNCHANGED <<media_dict, device_queues, hist, call, ret, ops>>
    /\ unchangedSettings
    /\ unchangedFs
    /\ unchangedRest

\* The worker's file object is closed: the pickled bytes go to the file, from
\* its start, and the thread ends.
WorkerFlush(d) ==
    /\ prefetch[d].alive /\ prefetch[d].pc = "save"
    /\ queue_file' = [queue_file EXCEPT ![d] =
                         [exists |-> TRUE, corrupt |-> FALSE, data |-> prefetch[d].dumped]]
    /\ prefetch' = [prefetch EXCEPT ![d] = NoThread]
    /\ UNCHANGED <<media_dict, device_queues, hist, call, ret, ops>>
    /\ unchangedSettings
    /\ unchangedFs
    /\ unchangedRest

\* Device d1 is served and new files are merged into its list while files
\* vanish and its prefetch worker drops their keys and saves.
NextSaves ==
    \/ Request /\ GetNext("d1")
    \/ GetNextLoop
    \/ Request /\ UpdateContent
    \/ WorkerStart("d1")
    \/ WorkerLoop("d1")
    \/ WorkerDone("d1")
    \/ WorkerDump("d1")
    \/ WorkerFlush("d1")
    \/ \E p \in Paths : Change /\ CreateFile(p)
    \/ \E p \in Paths : Change /\ DeleteFile(p)

SpecSaves == InitFull /\ [][NextSaves]_vars

\* No get_next call is in progress and device d's queue has no worker.
Quiescent(d) == device_queues[d].live /\ ~call.active /\ ~prefetch[d].alive

\* C24 (the file is the list): whenever no queue operation is running and
\* no prefetch worker of the device is alive, the device's queue file is
\* readable and holds the list the queue has in memory.
C24_FileIsList ==
    \A d \in Devices :
        Quiescent(d) =>
            /\ Readable(queue_file[d])
            /\ queue_file[d].data = device_queues[d].queue

\* ------------------------------------------- only_photo without photos
\* C25 (no photos, nothing touched): a pass of get_next's loop made with
\* only_photo while the catalog has no photo key ends the call with no media
\* and leaves the device's list and queue file as they were, whether the list
\* was empty or not.
C25_NoPhotoNoChange ==
    [][(GetNextLoop /\ call.only_photo /\ Len(media_dict.photo_keys) = 0) =>
          /\ ~call'.active /\ ret'.kind = "none"
          /\ device_queues'[call.dev].queue = device_queues[call.dev].queue
          /\ queue_file'[call.dev] = queue_file[call.dev]]_vars

\* ------------------------------------------- the refill under only_photo
\* The photo keys among the allow-list device d's queue holds.
AllowedPhotos(queues, md, d) == Range(queues[d].allowed.keys) \cap Range(md.photo_keys)

\* The step is a get_next for device d, or a pass of its loop, that finds d's
\* list empty and refills it.
RefillsEmpty(d) ==
    /\ device_queues[d].live /\ device_queues[d].queue = <<>>
    /\ GetNext(d) \/ (call.active /\ call.dev = d /\ GetNextLoop)

\* C26 (a refill under only_photo holds photos only): when a device with
\* only_photo has been served every photo of its allow-list and its empty
\* list is refilled, the list installed holds the photo keys of the
\* allow-list and no video key.
C26_RefillPhotosOnly ==
    [][\A d \in Devices :
          (/\ RefillsEmpty(d)
           /\ devices_info[d].known /\ devices_info[d].only_photo
           /\ AllowedPhotos(device_queues, media_dict, d) # {}
           /\ AllowedPhotos(device_queues, media_dict, d) \subseteq hist[d].served) =>
              hist'[d].installed = AllowedPhotos(device_queues', media_dict', d)]_vars

\* ------------------------------------------- a popped key that is gone
\* The call in progress is about to pop a key that does not resolve: no
\* catalog key any more, or one whose file is not where its record says.
PopsUnresolved ==
    /\ call.active
    /\ device_queues[call.dev].queue # <<>>
    /\ ~(call.only_photo /\ Len(media_dict.photo_keys) = 0)
    /\ ~EnsureMetadata(media_dict, fs, dirs,
                       device_queues[call.dev].queue[Len(device_queues[call.dev].queue)]).found

Observed == {fs[p] : p \in Paths} \ {NoFile}

\* C28 (the scan leaves a consistent catalog): after sync_files() the catalog
\* keys are the keys of the files the scan observed, file_id_to_key and
\* key_to_file_id are inverse to each other and cover those keys and those
\* files, and every key of a collection's list is a catalog key.
C28_ConsistentAfterSync ==
    /\ Range(DictKeys(Synced)) = {Synced.file_id_to_key[i] : i \in Observed}
    /\ \A i \in Inodes :
          Synced.file_id_to_key[i] # NoKey =>
              /\ i \in Observed
              /\ Synced.key_to_file_id[Synced.file_id_to_key[i]] = i
    /\ \A k \in Keys :
          Synced.key_to_file_id[k] # NoFile =>
              /\ HasKey(Synced, k)
              /\ Synced.file_id_to_key[Synced.key_to_file_id[k]] = k
    /\ \A k \in Range(DictKeys(Synced)) : Synced.key_to_file_id[k] # NoFile
    /\ \A i \in Observed : Synced.file_id_to_key[i] # NoKey
    /\ \A c \in {"", "trip"} :
          Range(Synced.collection_keys[c]) \subseteq Range(DictKeys(Synced))

\* ------------------------------------------------ two rescans at a time
\* The watcher's sync_files reaches its prune loop and takes list(self.keys()).
SyncFilesListKeys ==
    /\ scan.active /\ scan.p = 5
    /\ scan' = [scan EXCEPT !.p = 6, !.keys = DictKeys(media_dict)]
    /\ UNCHANGED <<media_dict, devices_info, default_collections, device_queues,
                   prefetch, queue_file, devices_file, default_file, call, ret, ops,
                   hist, orphans, writable>>
    /\ unchangedFs

RECURSIVE PruneLoop(_, _)
\* The prune loop over the keys gone, in catalog md: each key's identity
\* mapping is popped and the key deleted; del self[key] raises KeyError, and
\* ends the loop, when the catalog does not have the key any more.
PruneLoop(md, gone) ==
    IF gone = <<>> THEN [md |-> md, raised |-> FALSE]
    ELSE IF ~HasKey(md, Head(gone))
         THEN [md |-> [md EXCEPT !.key_to_file_id[Head(gone)] = NoFile], raised |-> TRUE]
    ELSE PruneLoop(
             [md EXCEPT !.items = PruneItems(@, Range(DictKeys(md)) \ {Head(gone)}),
                        !.key_to_file_id[Head(gone)] = NoFile,
                        !.file_id_to_key = [i \in Inodes |->
                            IF i = md.key_to_file_id[Head(gone)] THEN NoKey ELSE @[i]]],
             Tail(gone))

\* What the prune loop left: photo_keys is rebuilt unless the loop raised.
Pruned(r) ==
    IF r.raised THEN r.md ELSE [r.md EXCEPT !.photo_keys = PhotoKeys(r.md.items)]

\* The watcher's sync_files runs its prune loop over the keys it listed and
\* returns, or ends in the exception the loop raised.
SyncFilesPrune ==
    /\ scan.active /\ scan.p = 6
    /\ LET r == PruneLoop(media_dict,
                          SelectKeys(scan.keys, Range(scan.keys) \ scan.found_keys))
       IN /\ media_dict' = Pruned(r)
          /\ scan' = [NoScan EXCEPT !.raised = r.raised]
    /\ UNCHANGED <<devices_info, default_collections, device_queues, prefetch,
                   queue_file, devices_file, default_file, call, ret, ops, hist,
                   orphans, writable>>
    /\ unchangedFs

\* Another thread (a lookup that found a file missing, on the request thread
\* or in a prefetch worker) runs sync_files from start to end while the
\* watcher is inside its own.
LazySync ==
    /\ scan.active
    /\ media_dict' = SyncFiles(media_dict, fs, dirs).md
    /\ UNCHANGED <<devices_info, default_collections, device_queues, prefetch,
                   queue_file, devices_file, default_file, call, ret, ops, hist,
                   orphans, scan, writable>>
    /\ unchangedFs

\* The watcher rescans, step by step, a tree that changes only between two
\* of its rescans, and other threads rescan beside it.
NextOverlap ==
    \/ \E p \in Paths : ~scan.active /\ CreateFile(p)
    \/ \E p \in Paths : ~scan.active /\ DeleteFile(p)
    \/ SyncFilesBegin
    \/ SyncFilesStep
    \/ SyncFilesListKeys
    \/ SyncFilesPrune
    \/ LazySync

SpecOverlap == Init /\ [][NextOverlap]_vars

\* C29 (two rescans at a time are safe): a sync_files call that another
\* sync_files call overlapped ends without an exception and leaves the
\* catalog, the identity maps and the collection lists that one sync_files
\* call over the tree leaves.
C29_OverlapSafe ==
    [][(scan.active /\ ~scan'.active) =>
          /\ ~scan'.raised
          /\ media_dict' = SyncFiles(scan.before, fs, dirs).md]_vars

\* ------------------------------------------------ rescans of the same tree
\* Whether the scan loop's iteration for entry p of inode id, after scan s,
\* calls get_video_duration: for a file not known by identity when its name
\* is a video's; for a known one when the record is a video's after the
\* update and its kind or its path was updated (no record of a video is left
\* without a duration, get_video_duration returning 0 when it fails).
Probes(s, p, id) ==
    IF s.file_id_to_key[id] = NoKey THEN IsVideoName(p)
    ELSE /\ HasKey(s, s.file_id_to_key[id])
         /\ IsVideoName(p)
         /\ \/ ~Item(s, s.file_id_to_key[id]).is_video
            \/ Item(s, s.file_id_to_key[id]).file # p

RECURSIVE ProbedFrom(_, _, _)
\* The entries the scan loop calls get_video_duration for, from entry p on.
ProbedFrom(s, p, files) ==
    IF p > 4 THEN {}
    ELSE IF files[p] = NoFile THEN ProbedFrom(s, p + 1, files)
    ELSE (IF Probes(s, p, files[p]) THEN {p} ELSE {})
            \cup ProbedFrom(SyncFile(s, p, files[p]), p + 1, files)

\* The entries a sync_files call over the tree files probes, from catalog md.
Probed(md, files) == ProbedFrom(ScanStart(md), 1, files)

\* C30 (a rescan of an unchanged tree changes nothing and probes nothing):
\* after a sync_files call, a second one over the same tree leaves the
\* catalog, the identity maps and the collection lists as they are, returns
\* no new key and calls get_video_duration for no file.
C30_ResyncIdempotent ==
    /\ SyncFiles(Synced, fs, dirs).md = Synced
    /\ SyncFiles(Synced, fs, dirs).new_keys = <<>>
    /\ Probed(Synced, fs) = {}

\* ------------------------------------------------ keys of collections
\* The keys the collection lists of the known ids among ids hold.
UnionOf(md, ids) ==
    UNION {Range(md.collection_keys[c]) : c \in Range(ids) \cap DOMAIN md.collection_keys}

\* The directory entries of collection c at which a scan of the tree finds
\* key k of the catalog a sync_files() run leaves.
EntriesOf(k, c) ==
    {p \in Paths : /\ fs[p] # NoFile /\ CollectionId(p) = c
                   /\ Synced.file_id_to_key[fs[p]] = k}

\* The place of key k in the scan: the first entry of the tree (of
\* collection c) that has it.
ScanRank(k) == CHOOSE p \in EntriesOf(k, "") \cup EntriesOf(k, "trip") :
                   \A q \in EntriesOf(k, "") \cup EntriesOf(k, "trip") : p <= q
ScanRankIn(k, c) == CHOOSE p \in EntriesOf(k, c) : \A q \in EntriesOf(k, c) : p <= q

\* What get_keys_for_collections returns whatever the order: the union of
\* the lists of the ids given, no key and no identity twice; nothing for an
\* id no collection has or for no id; no key of the subfolder for the root's
\* id alone.
UnionOnce(ids) ==
    LET ks == GetKeysForCollections(Synced, ids)
    IN /\ Range(ks) = UnionOf(Synced, ids)
       /\ \A a, b \in 1..Len(ks) :
             a # b => /\ ks[a] # ks[b]
                      /\ FileIdOf(Synced, ks[a]) # FileIdOf(Synced, ks[b])
       /\ ks = GetKeysForCollections(Synced, SelectSeq(ids, LAMBDA c : c # "gone"))
       /\ (ids = <<>> => ks = <<>>)
       /\ (ids = <<"">> => \A k \in Range(ks) : EntriesOf(k, "") # {})

\* C31 as stated (keys of collections, in scan order): for every list of
\* collection ids get_keys_for_collections returns exactly the union of the
\* keys registered under the ids, each identity once, ordered as the scan of
\* the tree meets them; an unknown id adds nothing, no id gives the empty
\* list, and the root's id alone gives no key of the subfolder.
C31_InScanOrder ==
    \A ids \in IdLists :
        /\ UnionOnce(ids)
        /\ LET ks == GetKeysForCollections(Synced, ids)
           IN \A a, b \in 1..Len(ks) : a < b => ScanRank(ks[a]) < ScanRank(ks[b])

\* C31 amended (keys of collections, in the order of the ids): as above, but
\* the order is that of the ids given and, among the keys of one id, that
\* of the scan: the keys of the first id in scan order, then the keys of
\* the second id whose identity the first did not give.
C31_InIdOrder ==
    \A ids \in IdLists :
        /\ UnionOnce(ids)
        /\ Len(ids) = 1 =>
              LET ks == GetKeysForCollections(Synced, ids)
              IN \A a, b \in 1..Len(ks) :
                    a < b => ScanRankIn(ks[a], ids[1]) < ScanRankIn(ks[b], ids[1])
        /\ Len(ids) = 2 =>
              GetKeysForCollections(Synced, ids) =
                  GetKeysForCollections(Synced, <<ids[1]>>)
                      \o SelectSeq(GetKeysForCollections(Synced, <<ids[2]>>),
                                   LAMBDA k : k \notin Range(GetKeysForCollections(Synced, <<ids[1]>>)))

\* Both collections hold keys, one of them a file linked into both folders,
\* and the subfolder's id is given before the root's.
C31_Witness ==
    /\ Len(GetKeysForCollections(Synced, <<"trip", "">>)) >= 2
    /\ Range(Synced.collection_keys[""]) \cap Range(Synced.collection_keys["trip"]) # {}
    /\ Len(GetKeysForCollections(Synced, <<"trip", "">>))
          < Len(CollectKeys(Synced, <<"trip", "">>))
    /\ media_dict = Synced

\* ------------------------------------------------ sequential mode
\* Key k of catalog md resolves in the tree files and is not a video that
\* only_photo skips.
Dispensable(md, files, only_photo, k) ==
    /\ HasKey(md, k)
    /\ Exists(files, Quote(Item(md, k).file))
    /\ ~(only_photo /\ Item(md, k).is_video)

\* C32 (sequential mode follows the allow-list's order): the first key a
\* device in sequential mode is given after a refill is the first key of its
\* allow-list, when that key resolves and its kind is permitted.
C32_SequentialOrder ==
    \A d \in Devices :
        (/\ ~call.active /\ ret.dev = d /\ ret.kind = "media"
         /\ device_queues[d].live /\ ~device_queues[d].shuffle
         /\ hist[d].served = {ret.key} /\ ~hist[d].merged
         /\ device_queues[d].allowed.isSet
         /\ device_queues[d].allowed.keys # <<>>
         /\ Dispensable(media_dict, fs, devices_info[d].only_photo,
                        Head(device_queues[d].allowed.keys)))
        => ret.key = Head(device_queues[d].allowed.keys)

\* ------------------------------------------------ clearing a queue
\* C33 (delete_queue leaves the settings alone): delete_queue(d) leaves no
\* queue file and no remaining list for d, and leaves devices_info and
\* devices.pkl as they are; for a device without a settings entry it creates
\* none.
C33_DeleteQueueFrame ==
    [][\A d \in Devices :
          (DeleteQueue(d) /\ writable) =>
              /\ ~queue_file'[d].exists
              /\ device_queues'[d].queue = <<>>
              /\ devices_info' = devices_info
              /\ devices_file' = devices_file]_vars

\* ------------------------------------------------ the registry on disk
\* Devices d1 and d2 are served, configured and deleted, and the process is
\* restarted, in any order; no prefetch worker is scheduled.
NextRegistry ==
    \/ \E d \in Devices : Request /\ GetNext(d)
    \/ GetNextLoop
    \/ \E d \in Devices, b \in BOOLEAN, q \in BOOLEAN :
          Request /\ UpdateDeviceInfo(d, b, q, FALSE)
    \/ \E d \in Devices : Request /\ SetDeviceCollections(d, TRUE, <<>>, FALSE)
    \/ \E d \in Devices, c \in {<<"">>, <<"trip">>} :
          Request /\ SetDeviceCollections(d, FALSE, c, FALSE)
    \/ \E d \in Devices : Request /\ DeleteDevice(d)
    \/ Request /\ Restart

SpecRegistry == InitFull /\ [][NextRegistry]_vars

\* devices.pkl holds the registry: the file's content is devices_info, and
\* without a file the registry is empty.
RegistryPersisted ==
    IF devices_file.exists
    THEN Readable(devices_file) /\ devices_file.data = devices_info
    ELSE \A d \in Devices : ~devices_info[d].known

\* C34 (the registry is persisted on every change): whenever the manager has
\* returned from get_next, update_device_info, set_device_collections or
\* delete_device, devices.pkl holds devices_info; and a device id get_next
\* sees for the first time gets the default settings, its collections None.
C34_RegistrySaved ==
    /\ [](RegistryPersisted)
    /\ [][\A d \in Devices :
             (~devices_info[d].known /\ ~call.active /\ call'.active /\ call'.dev = d) =>
                 /\ devices_info'[d] = DeviceInfo
                 /\ devices_info'[d].collections.isNone
                 /\ devices_file'.data[d] = DeviceInfo]_vars

\* d1 got collections of its own and d2, registered by a get_next, was
\* deleted again: devices.pkl holds d1's entry alone.
C34_Witness ==
    /\ ~call.active
    /\ devices_file.exists
    /\ devices_info["d1"].known /\ ~devices_info["d1"].collections.isNone
    /\ hist["d2"].deleted /\ ~devices_info["d2"].known
    /\ ~devices_file.data["d2"].known

\* ------------------------------------------------ the worker and only_photo
\* Device d1 is served and its only_photo and sequential_mode settings are
\* changed while its prefetch worker runs; the tree does not change.
NextPrefetch ==
    \/ Request /\ GetNext("d1")
    \/ GetNextLoop
    \/ \E b \in BOOLEAN, q \in BOOLEAN : Request /\ UpdateDeviceInfo("d1", b, q, FALSE)
    \/ WorkerStart("d1")
    \/ WorkerLoop("d1")
    \/ WorkerDone("d1")

SpecPrefetch == InitFull /\ [][NextPrefetch]_vars

\* The step is a pass of device d's prefetch worker that removed the key it
\* looked at from d's list.
WorkerRemoves(d) ==
    /\ prefetch[d].alive /\ prefetch[d].pc = "loop" /\ prefetch[d].todo # <<>>
    /\ prefetch'[d] = [prefetch[d] EXCEPT !.todo = Tail(@), !.modified = TRUE]
    /\ Head(prefetch[d].todo) \in Range(device_queues[d].queue)
    /\ device_queues'[d] = [device_queues[d] EXCEPT
                               !.queue = RemoveFirst(@, Head(prefetch[d].todo))]

\* C35 (the worker removes only what a pop would discard): a key the
\* prefetch worker removes from a device's list is one a get_next of that
\* moment would discard - it does not resolve, or it is a video and the
\* device's only_photo setting is on.
C35_WorkerRemovesInvalid ==
    [][\A d \in Devices :
          WorkerRemoves(d) =>
              ~Dispensable(media_dict', fs, devices_info[d].only_photo,
                           Head(prefetch[d].todo))]_vars

\* ------------------------------------------------ defaults and overrides
\* C36 (new defaults do not touch a device with collections of its own):
\* set_default_collections leaves the stored collections, the allow-list,
\* the remaining list and the queue file of every device whose collections
\* are not None as they are.
C36_OverridesUntouched ==
    [][(\E c \in Selections : SetDefaultCollections(c)) =>
          \A d \in Devices :
              (devices_info[d].known /\ ~devices_info[d].collections.isNone) =>
                  /\ devices_info'[d] = devices_info[d]
                  /\ device_queues'[d] = device_queues[d]
                  /\ queue_file'[d] = queue_file[d]]_vars

\* The defaults were set to trip while d1, whose collections are the root's,
\* holds a list of the root's keys.
C36_Witness ==
    /\ devices_info["d1"].known
    /\ devices_info["d1"].collections = [isNone |-> FALSE, ids |-> <<"">>]
    /\ default_collections = <<"trip">>
    /\ device_queues["d1"].live
    /\ device_queues["d1"].queue # <<>>
    /\ device_queues["d1"].allowed.keys = AllowedKeys(media_dict, devices_info["d1"], <<"">>)
    /\ device_queues["d1"].allowed.keys # AllowedKeys(media_dict, DeviceInfo, default_collections)

\* ------------------------------------------------ keeping the defaults
\* The collection lists the settings form can post, one with a repeat and one
\* in another order than the tree's.
Posted == {<<>>, <<"">>, <<"trip">>, <<"", "">>, <<"", "trip">>, <<"trip", "">>}

\* Device d1 posts its collections, with and without keep_default_if_same,
\* and the admin changes the defaults; nothing else registers d1 or resets
\* its collections.
NextOverride ==
    \/ \E c \in Posted, k \in BOOLEAN : Request /\ SetDeviceCollections("d1", FALSE, c, k)
    \/ \E c \in Posted : Request /\ SetDefaultCollections(c)

SpecOverride == InitFull /\ [][NextOverride]_vars

\* C37 (posting the defaults keeps following them): set_device_collections(d,
\* c, keep_default_if_same) stores None when keep_default_if_same is set, d
\* has no collections of its own and c without its repeats is the list of
\* the defaults, and stores c without its repeats otherwise; a later
\* set_default_collections gives the new defaults' keys to d's queue in the
\* first case and leaves d's queue as it is in the second.
C37_KeepDefaultIfSame ==
    /\ [][\A c \in Posted, k \in BOOLEAN :
             SetDeviceCollections("d1", FALSE, c, k) =>
                 devices_info'["d1"].collections =
                     IF k /\ InfoOf("d1").collections.isNone /\ Dedup(c) = default_collections
                     THEN NoCollections
                     ELSE [isNone |-> FALSE, ids |-> Dedup(c)]]_vars
    /\ [][(\E c \in Posted : SetDefaultCollections(c) /\ devices_info["d1"].known) =>
             IF devices_info["d1"].collections.isNone
             THEN device_queues'["d1"].allowed.keys =
                      GetKeysForCollections(media_dict, default_collections')
             ELSE device_queues'["d1"] = device_queues["d1"]]_vars

\* d1 posted the defaults with keep_default_if_same, the defaults were then
\* set to trip, and d1's queue holds trip's keys.
C37_Witness ==
    /\ devices_info["d1"].known /\ devices_info["d1"].collections.isNone
    /\ default_collections = <<"trip">>
    /\ device_queues["d1"].live
    /\ device_queues["d1"].allowed.keys = GetKeysForCollections(media_dict, <<"trip">>)
    /\ device_queues["d1"].allowed.keys # <<>>

\* ------------------------------------------------ new files reach the queues
\* Device d1, whose settings are stored, is served while files are deleted
\* and created and the admin posts update_content.
NextContent ==
    \/ Request /\ GetNext("d1")
    \/ GetNextLoop
    \/ Request /\ UpdateContent
    \/ \E p \in Paths : fsOps < 2 /\ CreateFile(p)
    \/ \E p \in Paths : fsOps < 2 /\ DeleteFile(p)

SpecContent == InitRestart /\ [][NextContent]_vars

\* The step is an update_content whose rescan minted keys, so that
\* update_query(new_keys) runs.
UpdatesQuery == UpdateContent /\ SyncFiles(media_dict, fs, dirs).new_keys # <<>>

\* The keys of the new list that were remaining before and are not new.
StillRemaining(d) ==
    (Range(device_queues[d].queue) \cap Range(device_queues'[d].queue))
        \ Range(SyncFiles(media_dict, fs, dirs).new_keys)

\* C38 (new keys are merged into the remaining lists): after
\* update_query(new_keys) a live device's list holds every new key of the
\* device's allow-list once and no new key outside it, holds no key that the
\* device was given in the current cycle and that was not remaining, and in
\* sequential mode has the new keys dispensed after the keys that were
\* remaining.
C38_NewKeysMerged ==
    [][UpdatesQuery =>
          \A d \in Devices :
              device_queues[d].live =>
                  /\ \A k \in Range(SyncFiles(media_dict, fs, dirs).new_keys) :
                        Count(device_queues'[d].queue, k) =
                            IF k \in Range(device_queues'[d].allowed.keys) THEN 1 ELSE 0
                  /\ \A k \in hist[d].served :
                        k \in Range(device_queues'[d].queue) =>
                            k \in Range(device_queues[d].queue)
                  /\ ~device_queues[d].shuffle =>
                        \A i, j \in 1..Len(device_queues'[d].queue) :
                            (/\ device_queues'[d].queue[i]
                                   \in Range(SyncFiles(media_dict, fs, dirs).new_keys)
                             /\ device_queues'[d].queue[j] \in StillRemaining(d)) => i < j]_vars

\* ------------------------------------------------ position within total
\* C39 (position within total): a get_next call with counters that returned
\* a record returned with it a position of at least 1 and at most total.
C39_PositionWithinTotal ==
    (ret.kind = "media" /\ ret.counters) =>
        (1 <= ret.position /\ ret.position <= ret.total)

\* After counters were switched on for d1, its first call was made with
\* a.jpg deleted: the key of a.jpg was dropped from the list, the catalog was
\* rescanned without it, and b.mp4 was returned as 2 of 2.
C39_Witness ==
    /\ ~call.active /\ ret.counters /\ ret.kind = "media" /\ ops = 2
    /\ ~devices_info["d1"].only_photo
    /\ ret.key = Md5(2) /\ ret.position = 2 /\ ret.total = 2
    /\ fs[1] = NoFile /\ Md5(1) \notin Range(DictKeys(media_dict))
    /\ device_queues["d1"].allowed.keys = <<Md5(1), Md5(2)>>
    /\ device_queues["d1"].queue = <<>>

\* ------------------------------------------------ the defaults are never empty
\* Device d1 is served while the admin sets the defaults to no id, to one id,
\* to an id twice and to two ids, and the process is restarted over the
\* storage it left or over a damaged default_collections.pkl.
NextDefaults ==
    \/ Request /\ GetNext("d1")
    \/ GetNextLoop
    \/ \E c \in {<<>>, <<"trip">>, <<"trip", "trip">>, <<"trip", "">>} :
          Request /\ SetDefaultCollections(c)
    \/ Request /\ Restart
    \/ Request /\ CorruptRestart(FALSE, FALSE, TRUE)

SpecDefaults == Init /\ [][NextDefaults]_vars

\* C40 (the defaults are never empty): in every reachable state
\* default_collections is a non-empty list without repeats, and the
\* collections applied to a device that has none of its own are that list.
C40_DefaultsNeverEmpty ==
    /\ default_collections # <<>>
    /\ NoDup(default_collections)
    /\ \A d \in Devices : devices_info[d].collections.isNone =>
          /\ GetActiveCollections(devices_info[d], default_collections) # <<>>
          /\ GetActiveCollections(devices_info[d], default_collections) = default_collections

\* Device d1 was served, the defaults were then set to the empty list, which
\* stored the root collection, and the process was restarted: the defaults
\* loaded from the file are the root collection.
C40_Witness ==
    /\ ops = 3 /\ ~call.active
    /\ devices_info["d1"].known /\ devices_info["d1"].collections.isNone
    /\ ~device_queues["d1"].live
    /\ default_file.exists /\ ~default_file.corrupt /\ default_file.data = <<"">>
    /\ default_collections = <<"">>

====
